---- MODULE Spec2Model ----
(***************************************************************************)
(* A model of the swfsm decider runtime (package fsm) and of its event    *)
(* correlator.                                                             *)
(*                                                                         *)
(* Spec      one workflow driven through decision tasks by FSM.Tick        *)
(*           (unnamed/part_003), with the workflow service appending the   *)
(*           events that the returned decisions cause.                     *)
(* CorrSpec  an EventCorrelator (unnamed/part_001) driven directly by      *)
(*           Track / ForgetCorrelation calls.                              *)
(***************************************************************************)
EXTENDS Integers, Sequences, FiniteSets, TLC

VARIABLES
    history,      \* the events of the current run, oldest first (service side)
    previousStartedEventId,  \* of the next decision task
    ticks,        \* number of decision tasks handed to FSM.Tick so far
    last,         \* what the last FSM.Tick call returned and what it did
    emitted,      \* stateVersion of every FSM.State marker emitted so far
    closed,       \* the workflow has been closed by a close decision
    cor,          \* CorrSpec: the EventCorrelator under test
    corLog,       \* CorrSpec: the calls made on it so far, oldest first
    interceptor,  \* the DecisionInterceptor the FSM was built with
    report,       \* what the last handleDecisionTask did after its Tick
    pollers,      \* PollSpec: the goroutines running PollUntilShutdownBy
    mgr,          \* PollSpec: the ShutdownManager and its StopPollers call
    fsmStop,      \* PollSpec: the stop channel of the FSM and the calls of Stop
    responses,    \* WorkerSpec: the activity tasks handled and the Respond calls
    backoffs,     \* BackoffSpec: the calls of ActivityWorker.fail and what they did
    outcomes,     \* the decision lists given to an interceptor, and what it made of them
    dispatcher,   \* DispatchSpec: a BoundedGoroutineDispatcher and its goroutines
    paging        \* PageSpec: a call of DecisionTaskPoller.Poll and the pages it is given

vars == <<history, previousStartedEventId, ticks, last, emitted, closed, cor, corLog,
          interceptor, report, pollers, mgr, fsmStop, responses, backoffs, outcomes,
          dispatcher, paging>>

\* the state of the poller package and of the activity worker
pollVars == <<pollers, mgr, fsmStop>>

\* the state of the units that are checked on their own
unitVars == <<backoffs, outcomes, dispatcher, paging>>

(***************************************************************************)
(* Bounds of the model.                                                    *)
(***************************************************************************)
MaxTicks == 2       \* decision tasks per behaviour
MaxTracks == 4      \* Track calls per behaviour of CorrSpec

(***************************************************************************)
(* Names fixed by the program.                                             *)
(***************************************************************************)
StateMarker == "FSM.State"
CorrelatorMarker == "FSM.Correlator"
ErrorMarker == "FSM.Error"
CompleteState == "complete"

Nil == [nil |-> TRUE]

(***************************************************************************)
(* Go maps with string keys: functions with a finite domain.               *)
(***************************************************************************)
EmptyMap == << >>
MapHas(m, k) == k \in DOMAIN m
MapGet(m, k, zero) == IF k \in DOMAIN m THEN m[k] ELSE zero
MapPut(m, k, v) == [x \in (DOMAIN m) \cup {k} |-> IF x = k THEN v ELSE m[x]]
MapDelete(m, k) == [x \in (DOMAIN m) \ {k} |-> m[x]]

(***************************************************************************)
(* History events.  Ref is the ScheduledEventId / InitiatedEventId /       *)
(* StartedEventId attribute of a terminal event, Id the activity, timer or *)
(* workflow id, Name the marker or signal name, Details the marker details *)
(* or the input.                                                           *)
(***************************************************************************)
Event(id, type, ref, ident, name, details) ==
    [EventId |-> id, EventType |-> type, Ref |-> ref, Id |-> ident,
     Name |-> name, Details |-> details]

(***************************************************************************)
(* JSONStateSerializer.  A serialized value is a JSON text, kept here as   *)
(* the tagged value it encodes; decoding anything that is not JSON text    *)
(* (the empty string) is an error.                                         *)
(***************************************************************************)
EmptyText == << >>
Serialize(v) == <<"json", v>>
CanDeserialize(s) == Len(s) = 2 /\ s[1] = "json"
Deserialize(s) == s[2]

(***************************************************************************)
(* EventCorrelator (unnamed/part_001).  toForget is the event the pointer  *)
(* refers to, or Nil.  nilMaps names the maps that are still nil: a nil    *)
(* map reads as the empty map, and checkInit makes every map before any    *)
(* use.  Serializer is "json", or "nil" when the field was never set.      *)
(***************************************************************************)
MapNames ==
    {"Activities", "ActivityAttempts", "Signals", "SignalAttempts", "Timers",
     "Cancellations", "CancelationAttempts", "Children", "ChildrenAttempts"}

\* the correlator FSM.Tick starts from when the history holds no marker
EmptyCorrelator ==
    [Activities |-> EmptyMap, ActivityAttempts |-> EmptyMap,
     Signals |-> EmptyMap, SignalAttempts |-> EmptyMap,
     Timers |-> EmptyMap,
     Cancellations |-> EmptyMap, CancelationAttempts |-> EmptyMap,
     Children |-> EmptyMap, ChildrenAttempts |-> EmptyMap,
     toForget |-> Nil, nilMaps |-> MapNames, Serializer |-> "json"]

\* &EventCorrelator{}
ZeroCorrelator == [EmptyCorrelator EXCEPT !.Serializer = "nil"]

checkInit(a) == [a EXCEPT !.nilMaps = {}]

key(eventId) == ToString(eventId)

ActivityTerminals ==
    {"ActivityTaskCompleted", "ActivityTaskFailed", "ActivityTaskTimedOut",
     "ActivityTaskCanceled"}

RefTypes ==
    ActivityTerminals \cup
    {"ActivityTaskStarted", "ExternalWorkflowExecutionSignaled",
     "SignalExternalWorkflowExecutionFailed",
     "RequestCancelExternalWorkflowExecutionFailed",
     "ExternalWorkflowExecutionCancelRequested", "TimerFired", "TimerCanceled",
     "ChildWorkflowExecutionStarted", "StartChildWorkflowExecutionFailed"}

getId(a, h) ==
    IF h.EventType \in RefTypes THEN key(h.Ref)
    ELSE IF h.EventType = "WorkflowExecutionSignaled"
         THEN IF h.Name \in {"ActivityStarted", "ActivityUpdated"}
              THEN IF CanDeserialize(h.Details) THEN Deserialize(h.Details).ActivityId
                   ELSE ""
              ELSE key(h.Ref)
         ELSE ""

\* getId calls the Serializer of the correlator on the input of an activity
\* signal; the call on a Serializer that was never set panics
getIdPanics(a, h) ==
    /\ h.EventType = "WorkflowExecutionSignaled"
    /\ h.Name \in {"ActivityStarted", "ActivityUpdated"}
    /\ h.Details # EmptyText
    /\ a.Serializer = "nil"

signalIdFromInfo(info) == info.SignalName \o "->" \o info.WorkflowId

\* the info a map holds for the event, or Nil
InfoFor(infos, id) == MapGet(infos, id, Nil)

ActivityIdOf(info) == IF info # Nil THEN info.ActivityId ELSE ""
SignalIdOf(info) == IF info # Nil THEN signalIdFromInfo(info) ELSE ""
WorkflowIdOf(info) == IF info # Nil THEN info.WorkflowId ELSE ""

\* the key of the scheduling event in place of the activity id
safeActivityId_key(a, h) == getId(a, h)

safeActivityId(a, h) == ActivityIdOf(InfoFor(a.Activities, getId(a, h)))

safeSignalId(a, h) == SignalIdOf(InfoFor(a.Signals, getId(a, h)))

safeCancellationId(a, h) == WorkflowIdOf(InfoFor(a.Cancellations, getId(a, h)))

safeChildId(a, h) == WorkflowIdOf(InfoFor(a.Children, getId(a, h)))

\* the shared body counting the attempt whatever toForget is
incrementAttempts_counting(a, field, id, h) ==
    IF id # "" THEN [a EXCEPT ![field] = MapPut(@, id, MapGet(@, id, 0) + 1)]
    ELSE a

\* the shared body of the four increment...Attempts methods, on the attempts
\* map named by field
incrementAttempts(a, field, id, h) ==
    IF a.toForget = h
    THEN [a EXCEPT ![field] = MapDelete(@, id), !.toForget = Nil]
    ELSE IF id # "" THEN [a EXCEPT ![field] = MapPut(@, id, MapGet(@, id, 0) + 1)]
         ELSE a

incrementActivityAttempts(a, h) ==
    incrementAttempts(a, "ActivityAttempts", safeActivityId(a, h), h)

incrementSignalAttempts(a, h) ==
    incrementAttempts(a, "SignalAttempts", safeSignalId(a, h), h)

incrementCancellationAttempts(a, h) ==
    incrementAttempts(a, "CancelationAttempts", safeCancellationId(a, h), h)

incrementChildAttempts(a, h) ==
    incrementAttempts(a, "ChildrenAttempts", safeChildId(a, h), h)

\* RemoveCorrelation dereferences the info it looked up without a nil check
\* in these three cases
RemoveCorrelationPanics(a, h) ==
    \/ /\ h.EventType = "ExternalWorkflowExecutionSignaled"
       /\ ~MapHas(a.Signals, key(h.Ref))
    \/ /\ h.EventType = "ExternalWorkflowExecutionCancelRequested"
       /\ ~MapHas(a.Cancellations, key(h.Ref))
    \/ /\ h.EventType = "ChildWorkflowExecutionStarted"
       /\ ~MapHas(a.Children, key(h.Ref))

\* RemoveCorrelation leaving the attempts of a completed or canceled activity
RemoveCorrelation_keepAttempts(a, h) ==
    LET b == checkInit(a) IN
    IF h.EventType \in {"ActivityTaskFailed", "ActivityTaskTimedOut"}
    THEN [incrementActivityAttempts(b, h) EXCEPT !.Activities = MapDelete(@, key(h.Ref))]
    ELSE IF h.EventType \in {"ActivityTaskCompleted", "ActivityTaskCanceled"}
    THEN [b EXCEPT !.Activities = MapDelete(@, key(h.Ref))]
    ELSE b

RemoveCorrelation(a, h) ==
    LET b == checkInit(a) IN
    CASE h.EventType = "ActivityTaskCompleted" ->
           [b EXCEPT !.ActivityAttempts = MapDelete(@, safeActivityId(b, h)),
                     !.Activities = MapDelete(@, key(h.Ref))]
      [] h.EventType = "ActivityTaskFailed" ->
           [incrementActivityAttempts(b, h) EXCEPT !.Activities = MapDelete(@, key(h.Ref))]
      [] h.EventType = "ActivityTaskTimedOut" ->
           [incrementActivityAttempts(b, h) EXCEPT !.Activities = MapDelete(@, key(h.Ref))]
      [] h.EventType = "ActivityTaskCanceled" ->
           [b EXCEPT !.ActivityAttempts = MapDelete(@, safeActivityId(b, h)),
                     !.Activities = MapDelete(@, key(h.Ref))]
      [] h.EventType = "ExternalWorkflowExecutionSignaled" ->
           [b EXCEPT !.SignalAttempts =
                         MapDelete(@, signalIdFromInfo(b.Signals[key(h.Ref)])),
                     !.Signals = MapDelete(@, key(h.Ref))]
      [] h.EventType = "SignalExternalWorkflowExecutionFailed" ->
           [incrementSignalAttempts(b, h) EXCEPT !.Signals = MapDelete(@, key(h.Ref))]
      [] h.EventType = "TimerFired" ->
           [b EXCEPT !.Timers = MapDelete(@, key(h.Ref))]
      [] h.EventType = "TimerCanceled" ->
           [b EXCEPT !.Timers = MapDelete(@, key(h.Ref))]
      [] h.EventType = "RequestCancelExternalWorkflowExecutionFailed" ->
           [incrementCancellationAttempts(b, h)
               EXCEPT !.Cancellations = MapDelete(@, key(h.Ref))]
      [] h.EventType = "ExternalWorkflowExecutionCancelRequested" ->
           [b EXCEPT !.CancelationAttempts =
                         MapDelete(@, b.Cancellations[key(h.Ref)].WorkflowId),
                     !.Cancellations = MapDelete(@, key(h.Ref))]
      [] h.EventType = "StartChildWorkflowExecutionFailed" ->
           [incrementChildAttempts(b, h) EXCEPT !.Children = MapDelete(@, key(h.Ref))]
      [] h.EventType = "ChildWorkflowExecutionStarted" ->
           [b EXCEPT !.ChildrenAttempts =
                         MapDelete(@, b.Children[key(h.Ref)].WorkflowId),
                     !.Children = MapDelete(@, key(h.Ref))]
      [] OTHER -> b

Correlate(a, h) ==
    LET b == checkInit(a) IN
    CASE h.EventType = "ActivityTaskScheduled" ->
           [b EXCEPT !.Activities =
               MapPut(@, key(h.EventId), [ActivityId |-> h.Id, ActivityType |-> h.Name])]
      [] h.EventType = "SignalExternalWorkflowExecutionInitiated" ->
           [b EXCEPT !.Signals =
               MapPut(@, key(h.EventId), [SignalName |-> h.Name, WorkflowId |-> h.Id])]
      [] h.EventType = "RequestCancelExternalWorkflowExecutionInitiated" ->
           [b EXCEPT !.Cancellations = MapPut(@, key(h.EventId), [WorkflowId |-> h.Id])]
      [] h.EventType = "TimerStarted" ->
           [b EXCEPT !.Timers =
               MapPut(@, key(h.EventId), [Control |-> h.Name, TimerId |-> h.Id])]
      [] h.EventType = "StartChildWorkflowExecutionInitiated" ->
           [b EXCEPT !.Children =
               MapPut(@, key(h.EventId), [WorkflowId |-> h.Id, WorkflowType |-> h.Name])]
      [] OTHER -> b

\* Track that only correlates
Track_noRemove(a, h) == Correlate(a, h)

Track(a, h) == Correlate(RemoveCorrelation(a, h), h)

ForgetCorrelation(a, h) == [a EXCEPT !.toForget = h]

\* ActivityInfo, SignalInfo, TimerInfo, CancellationInfo and ChildInfo, on the
\* map named by field
InfoLookup(a, field, h) == InfoFor(a[field], getId(a, h))

AttemptsForActivity(a, info) == MapGet(a.ActivityAttempts, info.ActivityId, 0)

AttemptsForSignal(a, info) == MapGet(a.SignalAttempts, signalIdFromInfo(info), 0)

AttemptsForCancellation(a, info) ==
    IF info = Nil \/ info.WorkflowId = "" THEN 0
    ELSE MapGet(a.CancelationAttempts, info.WorkflowId, 0)

AttemptsForChild(a, info) ==
    IF info = Nil \/ info.WorkflowId = "" THEN 0
    ELSE MapGet(a.ChildrenAttempts, info.WorkflowId, 0)


(***************************************************************************)
(* Decisions and outcomes.                                                 *)
(***************************************************************************)
Decision(type, ident, name, details) ==
    [DecisionType |-> type, Id |-> ident, Name |-> name, Details |-> details]

recordStringMarker(markerName, details) ==
    Decision("RecordMarker", "", markerName, details)

Outcome(state, data, decisions) ==
    [State |-> state, Data |-> data, Decisions |-> decisions]

SerializedState(version, name, data, workflowId) ==
    [StateVersion |-> version, StateName |-> name, StateData |-> data,
     WorkflowId |-> workflowId]

\* FSMContext.ContinueWorkflowDecision: the input of the next run
ContinueWorkflowDecision(ctx, continuedState, data) ==
    Decision("ContinueAsNewWorkflowExecution", "", "",
             Serialize(SerializedState(ctx.stateVersion, continuedState,
                                       Serialize(data), "")))

CompleteWorkflowDecision(data) ==
    Decision("CompleteWorkflowExecution", "", "", Serialize(data))

\* FSMContext.ContinueWorkflow
ContinueWorkflow(ctx, data) ==
    Outcome(CompleteState, data, <<ContinueWorkflowDecision(ctx, ctx.State, data)>>)

(***************************************************************************)
(* The FSM under test: the states registered with AddInitialState and      *)
(* AddState, plus the three that Init installs.                            *)
(***************************************************************************)
InitialState == "start"
States == {"start", "working", CompleteState, "canceled", "failed"}

\* the user data, a TestData{States []string}
ZeroData == [States |-> << >>]
Visit(data, what) == [data EXCEPT !.States = Append(@, what)]

(***************************************************************************)
(* History scans of FSM.Tick.  events is newest first.                     *)
(***************************************************************************)
isStateMarker(e) == e.EventType = "MarkerRecorded" /\ e.Name = StateMarker
isCorrelatorMarker(e) == e.EventType = "MarkerRecorded" /\ e.Name = CorrelatorMarker
isErrorMarker(e) == e.EventType = "MarkerRecorded" /\ e.Name = ErrorMarker

\* the index of the first event of a scan that matches, 0 if none does;
\* matches[i] tells whether the i-th event does
FirstIndex(matches) ==
    IF \E i \in 1..Len(matches) : matches[i]
    THEN CHOOSE i \in 1..Len(matches) : matches[i] /\ \A j \in 1..(i - 1) : ~matches[j]
    ELSE 0

\* a scan that reads the state from the start event only
statefulHistoryEvent_startOnly(e) == e.EventType = "WorkflowExecutionStarted"

statefulHistoryEvent(e) == isStateMarker(e) \/ e.EventType = "WorkflowExecutionStarted"

\* [err, state]: the first state marker or start event decides
findSerializedState(events) ==
    LET i == FirstIndex([k \in 1..Len(events) |-> statefulHistoryEvent(events[k])]) IN
    IF i = 0 THEN [err |-> TRUE, state |-> Nil]
    ELSE IF ~CanDeserialize(events[i].Details) THEN [err |-> TRUE, state |-> Nil]
    ELSE LET st == Deserialize(events[i].Details) IN
         IF isStateMarker(events[i]) THEN [err |-> FALSE, state |-> st]
         ELSE [err |-> FALSE,
               state |-> IF st.StateName = "" THEN [st EXCEPT !.StateName = InitialState]
                         ELSE st]

findSerializedEventCorrelator(events) ==
    LET i == FirstIndex([k \in 1..Len(events) |-> isCorrelatorMarker(events[k])]) IN
    IF i = 0 THEN [err |-> FALSE, correlator |-> EmptyCorrelator]
    ELSE IF ~CanDeserialize(events[i].Details) THEN [err |-> TRUE, correlator |-> Nil]
    ELSE [err |-> FALSE, correlator |-> Deserialize(events[i].Details)]

\* &SerializedErrorState{}, which a marker that does not deserialize leaves
ZeroErrorState ==
    [Details |-> "", ErrorEvent |-> Nil,
     EarliestUnprocessedEventId |-> 0, LatestUnprocessedEventId |-> 0]

\* the error of the deserialization is dropped by Tick
findSerializedErrorState(events) ==
    LET i == FirstIndex([k \in 1..Len(events) |-> isErrorMarker(events[k])]) IN
    IF i = 0 THEN Nil
    ELSE IF ~CanDeserialize(events[i].Details) THEN ZeroErrorState
    ELSE Deserialize(events[i].Details)

IsPrevStarted(prevStarted, e) == e.EventId = prevStarted

\* a switch that leaves out the state marker only
KeepLastEvent_correlatorToo(e) ==
    CASE e.EventType \in {"DecisionTaskCompleted", "DecisionTaskScheduled",
                          "DecisionTaskStarted"} -> FALSE
      [] e.EventType = "MarkerRecorded" -> ~isStateMarker(e)
      [] OTHER -> TRUE

KeepLastEvent(e) ==
    CASE e.EventType \in {"DecisionTaskCompleted", "DecisionTaskScheduled",
                          "DecisionTaskStarted"} -> FALSE
      [] e.EventType = "MarkerRecorded" -> ~isStateMarker(e) /\ ~isCorrelatorMarker(e)
      [] OTHER -> TRUE

\* the unprocessed events, newest first
findLastEvents(prevStarted, events) ==
    LET stop == FirstIndex([k \in 1..Len(events) |-> IsPrevStarted(prevStarted, events[k])])
        upto == IF stop = 0 THEN Len(events) ELSE stop - 1
    IN SelectSeq(SubSeq(events, 1, upto), KeepLastEvent)


(***************************************************************************)
(* The inputs of a tick that are user code: what the decider does with an  *)
(* event, what the DecisionErrorHandler answers, which interceptor is      *)
(* installed.  A decider appends the name of its state to the data it was  *)
(* given, in place, before it returns or panics (the deciders of TestFSM), *)
(* and schedules an activity when it moves on to the other state.          *)
(***************************************************************************)
Behaviours == {"pass", "goto", "missing", "continue", "panic", "rescue"}
Interceptors == {"none", "test", "rewrite"}

\* what the deciders do with the n events of one decision task, oldest
\* first: every decider passes or every decider moves on, but for at most
\* one event, whose decider does anything
Scripts(n) ==
    {behs \in [1..n -> Behaviours] :
        \E base \in {"pass", "goto"}, k \in 0..n :
            \A i \in 1..n : i # k => behs[i] = base}

ScheduleActivityTask(activityId) ==
    Decision("ScheduleActivityTask", activityId, "activity", EmptyText)

Decider(b, ctx, h, data) ==
    LET mutated == Visit(data, ctx.State) IN
    [panicked |-> b \in {"panic", "rescue"},
     mutated |-> mutated,
     outcome |->
        CASE b = "pass" -> Outcome("", mutated, << >>)
          [] b = "goto" ->
               Outcome(IF ctx.State = InitialState THEN "working" ELSE InitialState,
                       mutated, <<ScheduleActivityTask("A" \o key(h.EventId))>>)
          [] b = "missing" -> Outcome("ghost", mutated, << >>)
          [] b = "continue" -> ContinueWorkflow(ctx, mutated)
          [] OTHER -> Nil]

\* the states AddErrorHandler gave a handler of their own
ErrorHandlers == {"working"}

\* the default handler whatever the state registered
HandlerFor_default(name) == "default"

\* handler := f.errorHandlers[name]; if handler == nil { handler = f.DecisionErrorHandler }
HandlerFor(name) == IF name \in ErrorHandlers THEN name ELSE "default"

\* a DecisionErrorHandler: nil, or an outcome built on the state before the
\* event that names the handler
Handler(handler, b, ctx, h, stateBeforeEvent, stateAfterError) ==
    IF b = "rescue" THEN Outcome("", Visit(stateBeforeEvent, handler), << >>) ELSE Nil

\* FSMState.EntryDecisions: the decisions a state asks for when it is entered
\* (SecondState of TestEntryDecisions)
EntryDecisions(name) ==
    IF name = "working" THEN <<ScheduleActivityTask("entry")>> ELSE << >>

\* the FuncInterceptor of TestInterceptors ("test"), and one that rewrites the
\* state and the data of the outcome it is given ("rewrite")
BeforeDecision(ic, ctx, outcome) ==
    CASE ic = "test" ->
           [outcome EXCEPT !.Decisions =
              @ \o <<CompleteWorkflowDecision(ZeroData), CompleteWorkflowDecision(ZeroData)>>]
      [] ic = "rewrite" -> [outcome EXCEPT !.State = "working", !.Data = Visit(@, "before")]
      [] OTHER -> outcome

isComplete(d) == d.DecisionType = "CompleteWorkflowExecution"

dedupeCompletes(in) ==
    LET lastComplete ==
            IF \E i \in 1..Len(in) : isComplete(in[i])
            THEN CHOOSE i \in 1..Len(in) :
                    isComplete(in[i]) /\ \A j \in (i + 1)..Len(in) : ~isComplete(in[j])
            ELSE 0
        RECURSIVE keep(_)
        keep(i) == IF i > Len(in) THEN << >>
                   ELSE (IF isComplete(in[i]) /\ i # lastComplete THEN << >> ELSE <<in[i]>>)
                        \o keep(i + 1)
    IN keep(1)

AfterDecision(ic, ctx, outcome) ==
    CASE ic = "test" -> [outcome EXCEPT !.Decisions = dedupeCompletes(@)]
      [] ic = "rewrite" -> [outcome EXCEPT !.State = InitialState, !.Data = Visit(@, "after")]
      [] OTHER -> outcome

\* if f.DecisionInterceptor != nil { f.DecisionInterceptor.<hook>(...) }: the
\* call of a hook after decided calls of deciders, with the outcome it was
\* given and the outcome it left
Hooked(ic, hook, decided, in, out) ==
    IF ic = "none" THEN << >>
    ELSE <<[hook |-> hook, decided |-> decided, in |-> in, out |-> out]>>

BeforeTask(ic) == Hooked(ic, "BeforeTask", 0, Nil, Nil)

(***************************************************************************)
(* Stasher: the copy of the data taken before a decider runs, a            *)
(* serialize / deserialize round trip.                                     *)
(***************************************************************************)
Stash(data) == Serialize(data)
Unstash(stashed) == Deserialize(stashed)

(***************************************************************************)
(* FSM.Tick and what it calls.                                             *)
(***************************************************************************)
\* mergeOutcomes putting the decisions of the later event first
mergeOutcomes_prepend(final, intermediate) ==
    [State |-> IF intermediate.State # "" THEN intermediate.State ELSE final.State,
     Data |-> intermediate.Data,
     Decisions |-> intermediate.Decisions \o final.Decisions]

mergeOutcomes(final, intermediate) ==
    [State |-> IF intermediate.State # "" THEN intermediate.State ELSE final.State,
     Data |-> intermediate.Data,
     Decisions |-> final.Decisions \o intermediate.Decisions]

\* JSON drops the unexported toForget
SerializeCorrelator(eventCorrelator) == Serialize([eventCorrelator EXCEPT !.toForget = Nil])

\* recordStateMarkers appending the markers to the decisions of the outcome
recordStateMarkers_markersLast(ctx, outcome, eventCorrelator, errorState) ==
    LET state == SerializedState(ctx.stateVersion + 1, outcome.State,
                                 Serialize(outcome.Data), ctx.WorkflowId)
        d == recordStringMarker(StateMarker, Serialize(state))
        c == recordStringMarker(CorrelatorMarker, SerializeCorrelator(eventCorrelator))
        e == IF errorState # Nil
             THEN <<recordStringMarker(ErrorMarker, Serialize(errorState))>>
             ELSE << >>
    IN [decisions |-> outcome.Decisions \o <<d, c>> \o e, state |-> state]

\* recordStateMarkers recording the version it found
recordStateMarkers_sameVersion(ctx, outcome, eventCorrelator, errorState) ==
    LET state == SerializedState(ctx.stateVersion, outcome.State,
                                 Serialize(outcome.Data), ctx.WorkflowId)
        d == recordStringMarker(StateMarker, Serialize(state))
        c == recordStringMarker(CorrelatorMarker, SerializeCorrelator(eventCorrelator))
        e == IF errorState # Nil
             THEN <<recordStringMarker(ErrorMarker, Serialize(errorState))>>
             ELSE << >>
    IN [decisions |-> <<d, c>> \o e \o outcome.Decisions, state |-> state]

\* recordStateMarkers recording the state of the context
recordStateMarkers_contextState(ctx, outcome, eventCorrelator, errorState) ==
    LET state == SerializedState(ctx.stateVersion + 1, ctx.State,
                                 Serialize(outcome.Data), ctx.WorkflowId)
        d == recordStringMarker(StateMarker, Serialize(state))
        c == recordStringMarker(CorrelatorMarker, SerializeCorrelator(eventCorrelator))
        e == IF errorState # Nil
             THEN <<recordStringMarker(ErrorMarker, Serialize(errorState))>>
             ELSE << >>
    IN [decisions |-> <<d, c>> \o e \o outcome.Decisions, state |-> state]

recordStateMarkers(ctx, outcome, eventCorrelator, errorState) ==
    LET state == SerializedState(ctx.stateVersion + 1, outcome.State,
                                 Serialize(outcome.Data), ctx.WorkflowId)
        d == recordStringMarker(StateMarker, Serialize(state))
        c == recordStringMarker(CorrelatorMarker, SerializeCorrelator(eventCorrelator))
        e == IF errorState # Nil
             THEN <<recordStringMarker(ErrorMarker, Serialize(errorState))>>
             ELSE << >>
    IN [decisions |-> <<d, c>> \o e \o outcome.Decisions, state |-> state]

\* FSMContext.Decide under the recover of panicSafeDecide, given what the
\* decider did (d).  data is the object outcome.Data points to, as the
\* decider left it.
Decide(d, event, eventCorrelator) ==
    IF d.panicked \/ RemoveCorrelationPanics(eventCorrelator, event)
    THEN [err |-> TRUE, anOutcome |-> Nil, data |-> d.mutated,
          correlator |-> eventCorrelator]
    ELSE [err |-> FALSE, anOutcome |-> d.outcome, data |-> d.mutated,
          correlator |-> Track(eventCorrelator, event)]

panicSafeDecide(b, ctx, event, data, eventCorrelator) ==
    Decide(Decider(b, ctx, event, data), event, eventCorrelator)

\* the error marker with a window that starts at the previous decision task
NewErrorState_fromPrevious(decisionTask, e) ==
    [Details |-> "panic in decider",
     ErrorEvent |-> e,
     EarliestUnprocessedEventId |-> decisionTask.PreviousStartedEventId,
     LatestUnprocessedEventId |-> decisionTask.StartedEventId]

\* the error marker of a panic that no handler rescued
NewErrorState(decisionTask, e) ==
    [Details |-> "panic in decider",
     ErrorEvent |-> e,
     EarliestUnprocessedEventId |-> decisionTask.PreviousStartedEventId + 1,
     LatestUnprocessedEventId |-> decisionTask.StartedEventId]

\* the loop body of Tick after panicSafeDecide returned r: stashed is the
\* copy of the data taken before the call
Decided(decisionTask, ctx, e, b, acc, stashed, r) ==
    LET outcome == acc.outcome
        stashedData == Unstash(stashed)
        handler == HandlerFor(outcome.State)
        rescued == Handler(handler, b, ctx, e, stashedData, r.data)
        call == [EventId |-> e.EventId, State |-> outcome.State, Data |-> outcome.Data,
                 Outcome |-> IF r.err THEN rescued ELSE r.anOutcome]
        hcall == [EventId |-> e.EventId, handler |-> handler,
                  stateBeforeEvent |-> stashedData, stateAfterError |-> r.data,
                  rescued |-> rescued # Nil]
    IN IF ~r.err
       THEN [acc EXCEPT !.outcome = mergeOutcomes(outcome, r.anOutcome),
                        !.correlator = r.correlator,
                        !.calls = Append(@, call)]
       ELSE IF rescued # Nil
       THEN [acc EXCEPT !.outcome = mergeOutcomes(outcome, rescued),
                        !.calls = Append(@, call),
                        !.handled = Append(@, hcall)]
       ELSE [acc EXCEPT !.kind = "panic",
                        !.outcome = [outcome EXCEPT !.Data = r.data],
                        !.calls = Append(@, call),
                        !.handled = Append(@, hcall),
                        !.errorState = NewErrorState(decisionTask, e)]

\* a loop body that calls the decider whatever the name of the state
DecideEvent_anyState(decisionTask, ctx, e, b, acc) ==
    Decided(decisionTask, [ctx EXCEPT !.State = acc.outcome.State], e, b, acc,
            Stash(acc.outcome.Data),
            panicSafeDecide(b, [ctx EXCEPT !.State = acc.outcome.State], e,
                            acc.outcome.Data, acc.correlator))

\* the body of the loop of Tick for one event; acc.kind tells how it ended
DecideEvent(decisionTask, ctx, e, b, acc) ==
    IF acc.outcome.State \notin States THEN [acc EXCEPT !.kind = "missing"]
    ELSE Decided(decisionTask, [ctx EXCEPT !.State = acc.outcome.State], e, b, acc,
                 Stash(acc.outcome.Data),
                 panicSafeDecide(b, [ctx EXCEPT !.State = acc.outcome.State], e,
                                 acc.outcome.Data, acc.correlator))

\* for i := len(lastEvents) - 1; i >= 0; i--
FirstEvent(lastEvents) == Len(lastEvents)
NextEvent(i) == i - 1

RECURSIVE Fold(_, _, _, _, _, _)
RECURSIVE FoldOn(_, _, _, _, _, _)

\* the loop of Tick from lastEvents[i] on; next is acc after that event
FoldOn(decisionTask, ctx, lastEvents, behs, i, next) ==
    IF next.kind # "fold" THEN next
    ELSE Fold(decisionTask, ctx, lastEvents, behs, NextEvent(i), next)

Fold(decisionTask, ctx, lastEvents, behs, i, acc) ==
    IF i < 1 \/ i > Len(lastEvents) THEN acc
    ELSE FoldOn(decisionTask, ctx, lastEvents, behs, i,
                DecideEvent(decisionTask, ctx, lastEvents[i], behs[i], acc))

\* what Tick returns (status, decisions, state) and, for the properties, what
\* it did on the way.  marked is what recordStateMarkers returned, seen is
\* what Tick found in the history.
TickResult(status, path, marked, seen, acc) ==
    [status |-> status, path |-> path,
     decisions |-> marked.decisions, state |-> marked.state,
     old |-> seen.old, entryErrorState |-> seen.entry, shadow |-> seen.shadow,
     hooks |-> seen.hooks,
     outcome |-> acc.outcome, correlator |-> acc.correlator, calls |-> acc.calls,
     handled |-> acc.handled, errorState |-> acc.errorState]

NoFold == [kind |-> "fold", outcome |-> Nil, correlator |-> Nil, calls |-> << >>,
           handled |-> << >>, errorState |-> Nil]

NoMarkers == [decisions |-> << >>, state |-> Nil]

TickError == TickResult("error", "error", NoMarkers,
                        [old |-> Nil, entry |-> Nil, shadow |-> "none", hooks |-> << >>],
                        NoFold)

WithoutErrorMarkers(events) == SelectSeq(events, LAMBDA h : ~isErrorMarker(h))

\* the decision task of the shadow tick of ErrorStateTick
filteredDecisionTask(decisionTask, error) ==
    [decisionTask EXCEPT !.Events = WithoutErrorMarkers(decisionTask.Events),
                         !.StartedEventId = error.LatestUnprocessedEventId,
                         !.PreviousStartedEventId = error.EarliestUnprocessedEventId]

RECURSIVE Tick(_, _, _, _, _)

\* ErrorStateTick after the shadow Tick returned t.  After a Tick that
\* returned an error the code reads the StateData of the *SerializedState
\* it returned, which is nil on every error return of a tick without error
\* marker.
Recovered(t) ==
    IF t.status = "crash"
    THEN [crash |-> TRUE, outcome |-> Nil, shadow |-> "crash", hooks |-> t.hooks]
    ELSE IF t.status = "error"
    THEN IF t.state = Nil
         THEN [crash |-> TRUE, outcome |-> Nil, shadow |-> "error", hooks |-> t.hooks]
         ELSE [crash |-> FALSE, shadow |-> "error", hooks |-> t.hooks,
               outcome |-> Outcome(t.state.StateName, Deserialize(t.state.StateData),
                                   t.decisions)]
    ELSE [crash |-> FALSE, outcome |-> Nil, shadow |-> "ok", hooks |-> t.hooks]

\* [crash, outcome, shadow]: the recovery outcome or Nil.  eh is the answer
\* of the DecisionErrorHandler, sbehs what the deciders do in the shadow tick.
ErrorStateTick(decisionTask, error, ic, eh, sbehs) ==
    IF eh = "nil" THEN [crash |-> FALSE, outcome |-> Nil, shadow |-> "none", hooks |-> << >>]
    ELSE Recovered(Tick(filteredDecisionTask(decisionTask, error), ic, sbehs, "nil", << >>))

\* a Tick that records the markers of the outcome as the loop left it
Finish_beforeAfterDecision(ic, ctx, seen, acc, after) ==
    TickResult("ok", "decided", recordStateMarkers(ctx, acc.outcome, acc.correlator, Nil),
               [seen EXCEPT !.hooks =
                   @ \o Hooked(ic, "AfterDecision", Len(acc.calls), acc.outcome, after)],
               [acc EXCEPT !.outcome = after])

\* Tick from the AfterDecision interceptor on
Finish(ic, ctx, seen, acc, after) ==
    TickResult("ok", "decided", recordStateMarkers(ctx, after, acc.correlator, Nil),
               [seen EXCEPT !.hooks =
                   @ \o Hooked(ic, "AfterDecision", Len(acc.calls), acc.outcome, after)],
               [acc EXCEPT !.outcome = after])

\* Tick after its loop ended with acc
Folded(ic, ctx, seen, acc) ==
    IF acc.kind = "missing" THEN TickResult("error", "missing", NoMarkers, seen, acc)
    ELSE IF acc.kind = "panic"
    THEN TickResult("ok", "panic",
                    recordStateMarkers(ctx, acc.outcome, acc.correlator, acc.errorState),
                    seen, acc)
    ELSE Finish(ic, ctx, seen, acc,
                AfterDecision(ic, [ctx EXCEPT !.State = acc.outcome.State], acc.outcome))

\* the loop of Tick, started with outcome
FoldEvents(decisionTask, ic, behs, ctx, seen, eventCorrelator, lastEvents, outcome) ==
    Folded(ic, ctx, seen,
           Fold(decisionTask, ctx, lastEvents, behs, FirstEvent(lastEvents),
                [NoFold EXCEPT !.outcome = outcome, !.correlator = eventCorrelator]))

\* Tick after ErrorStateTick returned recovery for the error marker errorState
Recover(decisionTask, ic, behs, ctx, seen, eventCorrelator, lastEvents, outcome, errorState, recovery) ==
    IF recovery.crash
    THEN TickResult("crash", "recovery", NoMarkers,
                    [seen EXCEPT !.shadow = recovery.shadow, !.hooks = @ \o recovery.hooks], NoFold)
    ELSE IF recovery.outcome # Nil
    THEN FoldEvents(decisionTask, ic, behs, ctx, [seen EXCEPT !.shadow = recovery.shadow, !.hooks = @ \o recovery.hooks],
                    eventCorrelator, lastEvents, recovery.outcome)
    ELSE TickResult("ok", "recoveryFailed",
                    recordStateMarkers(ctx, outcome, eventCorrelator,
                        [errorState EXCEPT
                            !.LatestUnprocessedEventId = decisionTask.StartedEventId]),
                    [seen EXCEPT !.shadow = recovery.shadow, !.hooks = @ \o recovery.hooks],
                    [NoFold EXCEPT
                        !.outcome = outcome, !.correlator = eventCorrelator,
                        !.errorState = [errorState EXCEPT
                            !.LatestUnprocessedEventId = decisionTask.StartedEventId]])

\* Tick once state, correlator and error state are reconstructed
Reconstructed(decisionTask, ic, behs, eh, sbehs, lastEvents, serializedState, eventCorrelator, errorState) ==
    LET ctx == [State |-> "", stateVersion |-> serializedState.StateVersion,
                WorkflowId |-> decisionTask.WorkflowId]
        found == Outcome(serializedState.StateName,
                         Deserialize(serializedState.StateData), << >>)
        before == BeforeDecision(ic, ctx, found)
        seen == [old |-> serializedState, entry |-> errorState, shadow |-> "none",
                 hooks |-> BeforeTask(ic) \o Hooked(ic, "BeforeDecision", 0, found, before)]
    IN IF errorState # Nil
       THEN Recover(decisionTask, ic, behs, ctx, seen, eventCorrelator, lastEvents, before,
                    errorState, ErrorStateTick(decisionTask, errorState, ic, eh, sbehs))
       ELSE FoldEvents(decisionTask, ic, behs, ctx, seen, eventCorrelator, lastEvents, before)

\* Tick after the three scans of the history
Found(decisionTask, ic, behs, eh, sbehs, found, foundCorrelator, errorState) ==
    IF found.err \/ foundCorrelator.err THEN [TickError EXCEPT !.hooks = BeforeTask(ic)]
    ELSE IF ~CanDeserialize(found.state.StateData)
    THEN [TickError EXCEPT !.hooks = BeforeTask(ic)]
    ELSE Reconstructed(decisionTask, ic, behs, eh, sbehs,
             findLastEvents(decisionTask.PreviousStartedEventId, decisionTask.Events),
             found.state, foundCorrelator.correlator, errorState)

Tick(decisionTask, ic, behs, eh, sbehs) ==
    Found(decisionTask, ic, behs, eh, sbehs,
          findSerializedState(decisionTask.Events),
          findSerializedEventCorrelator(decisionTask.Events),
          findSerializedErrorState(decisionTask.Events))

(***************************************************************************)
(* The workflow service, as far as one workflow sees it: it numbers the    *)
(* events, turns the decisions of a completed decision task into events    *)
(* (DecisionsToEvents of the tests), starts the next run on a              *)
(* continue-as-new and times out a decision task that is not answered.     *)
(***************************************************************************)
Reverse(seq) == [i \in 1..Len(seq) |-> seq[Len(seq) + 1 - i]]

PlainEvent(id, type) == Event(id, type, 0, "", "", EmptyText)

DecisionToEvent(d, id) ==
    CASE d.DecisionType = "RecordMarker" ->
           Event(id, "MarkerRecorded", 0, "", d.Name, d.Details)
      [] d.DecisionType = "ScheduleActivityTask" ->
           Event(id, "ActivityTaskScheduled", 0, d.Id, d.Name, EmptyText)
      [] d.DecisionType = "CompleteWorkflowExecution" ->
           Event(id, "WorkflowExecutionCompleted", 0, "", "", d.Details)
      [] OTHER -> Event(id, "WorkflowExecutionContinuedAsNew", 0, "", "", d.Details)

DecisionsToEvents(decisions, base) ==
    [i \in 1..Len(decisions) |-> DecisionToEvent(decisions[i], base + i)]

HasDecision(decisions, type) ==
    \E i \in 1..Len(decisions) : decisions[i].DecisionType = type

ContinueInput(decisions) ==
    decisions[CHOOSE i \in 1..Len(decisions) :
                 decisions[i].DecisionType = "ContinueAsNewWorkflowExecution"].Details

WorkflowExecutionStarted(input) ==
    Event(1, "WorkflowExecutionStarted", 0, "", "", input)

\* StartFSMWorkflowInput: a SerializedState without state name; a continued
\* run starts from the input of its ContinueAsNew decision instead
StartInputs ==
    {Serialize(SerializedState(v, "", Serialize(ZeroData), "")) : v \in {0, 23}}

\* scheduled activities without a terminal event
Outstanding ==
    {i \in 1..Len(history) :
        /\ history[i].EventType = "ActivityTaskScheduled"
        /\ ~\E j \in 1..Len(history) :
              history[j].EventType \in ActivityTerminals /\ history[j].Ref = i}

ExternalTypes ==
    {"WorkflowExecutionSignaled", "ActivityTaskCompleted", "ActivityTaskFailed"}

\* the service schedules a decision task when such an event is the newest
Triggers == ExternalTypes \cup {"WorkflowExecutionStarted", "DecisionTaskTimedOut"}

Triggered == history[Len(history)].EventType \in Triggers

\* one event arrives between two decision tasks
External ==
    /\ ~closed
    /\ ticks < MaxTicks
    /\ history[Len(history)].EventType \notin ExternalTypes
    /\ \/ history' = Append(history,
                        Event(Len(history) + 1, "WorkflowExecutionSignaled", 0, "",
                              "sig", EmptyText))
       \/ \E i \in Outstanding, type \in {"ActivityTaskCompleted", "ActivityTaskFailed"} :
             history' = Append(history, Event(Len(history) + 1, type, i, "", "", EmptyText))
    /\ UNCHANGED <<previousStartedEventId, ticks, last, emitted, closed, cor, corLog,
                   interceptor, report, pollVars, responses, unitVars>>

\* the decision task the poller hands to handleDecisionTask
Scheduled ==
    history \o <<PlainEvent(Len(history) + 1, "DecisionTaskScheduled"),
                 PlainEvent(Len(history) + 2, "DecisionTaskStarted")>>

DecisionTask ==
    [Events |-> Reverse(Scheduled),
     PreviousStartedEventId |-> previousStartedEventId,
     StartedEventId |-> Len(history) + 2,
     WorkflowId |-> "workflow-id"]

\* the nil error
NilError == "<nil>"

\* the token of the decision task that was started with the event
TaskToken(startedEventId) == <<"token", startedEventId>>

TaskErrorHandler(err) == [op |-> "TaskErrorHandler", err |-> err]

\* handleDecisionTask going on to the ReplicationHandler when the response failed
handleDecisionTask_replicateUnanswered(t, respondErr, rep) ==
    LET decided == Scheduled \o <<PlainEvent(Len(Scheduled) + 1, "DecisionTaskCompleted")>>
        events == decided \o DecisionsToEvents(t.decisions, Len(decided))
        err == IF t.status # "ok" THEN "tick error" ELSE NilError
        responded == t.status = "ok" /\ ~respondErr
        complete == [op |-> "RespondDecisionTaskCompleted", Decisions |-> t.decisions,
                     TaskToken |-> TaskToken(Len(history) + 2),
                     ExecutionContext |-> t.state.StateName]
        replicate == [op |-> "ReplicationHandler", complete |-> complete, state |-> t.state]
    IN /\ ticks' = ticks + 1
       /\ last' = [t EXCEPT !.correlator = Nil] @@
                  [PreviousStartedEventId |-> previousStartedEventId,
                   StartedEventId |-> Len(history) + 2,
                   lastEvents |-> findLastEvents(previousStartedEventId, Reverse(Scheduled))]
       /\ report' = [responded |-> responded,
                     decisions |-> IF responded THEN t.decisions ELSE << >>,
                     replication |-> IF t.status = "ok" THEN rep ELSE "none",
                     errors |-> IF t.status # "ok" THEN <<err>>
                                ELSE IF respondErr THEN <<"respond error">>
                                ELSE IF rep = "error" THEN <<err>>
                                ELSE << >>,
                     calls |-> IF t.status # "ok" THEN <<TaskErrorHandler(err)>>
                              ELSE IF rep = "none"
                              THEN IF respondErr
                                   THEN <<complete, TaskErrorHandler("respond error")>>
                                   ELSE <<complete>>
                              ELSE IF respondErr
                              THEN <<complete, TaskErrorHandler("respond error"), replicate>>
                              ELSE IF rep = "error"
                              THEN <<complete, replicate, TaskErrorHandler(err)>>
                              ELSE <<complete, replicate>>]
       /\ IF ~responded
          THEN /\ history' = Scheduled \o
                      <<PlainEvent(Len(Scheduled) + 1, "DecisionTaskTimedOut")>>
               /\ UNCHANGED <<previousStartedEventId, emitted, closed>>
          ELSE /\ emitted' = Append(emitted, t.state.StateVersion)
               /\ closed' = HasDecision(t.decisions, "CompleteWorkflowExecution")
               /\ IF ~closed' /\ HasDecision(t.decisions, "ContinueAsNewWorkflowExecution")
                  THEN /\ history' = <<WorkflowExecutionStarted(ContinueInput(t.decisions))>>
                       /\ previousStartedEventId' = 0
                  ELSE /\ history' = events
                       /\ previousStartedEventId' = Len(history) + 2
       /\ UNCHANGED <<cor, corLog, interceptor, pollVars, responses, unitVars>>

\* handleDecisionTask of an FSM without a ReplicationHandler, whose responses
\* the service accepts
\* handleDecisionTask once Tick has returned t: respondErr says whether
\* RespondDecisionTaskCompleted returns an error, rep what the
\* ReplicationHandler returns ("none": the FSM has no ReplicationHandler).
\* err is the error variable of the function, set by Tick only.
\* calls are the calls the function makes, in their order.
handleDecisionTask(t, respondErr, rep) ==
    LET decided == Scheduled \o <<PlainEvent(Len(Scheduled) + 1, "DecisionTaskCompleted")>>
        events == decided \o DecisionsToEvents(t.decisions, Len(decided))
        err == IF t.status # "ok" THEN "tick error" ELSE NilError
        responded == t.status = "ok" /\ ~respondErr
        complete == [op |-> "RespondDecisionTaskCompleted", Decisions |-> t.decisions,
                     TaskToken |-> TaskToken(Len(history) + 2),
                     ExecutionContext |-> t.state.StateName]
        replicate == [op |-> "ReplicationHandler", complete |-> complete, state |-> t.state]
    IN /\ ticks' = ticks + 1
       /\ last' = [t EXCEPT !.correlator = Nil] @@
                  [PreviousStartedEventId |-> previousStartedEventId,
                   StartedEventId |-> Len(history) + 2,
                   lastEvents |-> findLastEvents(previousStartedEventId, Reverse(Scheduled))]
       /\ report' = [responded |-> responded,
                     decisions |-> IF responded THEN t.decisions ELSE << >>,
                     replication |-> IF responded THEN rep ELSE "none",
                     errors |-> IF t.status # "ok" THEN <<err>>
                                ELSE IF respondErr THEN <<"respond error">>
                                ELSE IF rep = "error" THEN <<err>>
                                ELSE << >>,
                     calls |-> IF t.status # "ok" THEN <<TaskErrorHandler(err)>>
                              ELSE IF respondErr
                              THEN <<complete, TaskErrorHandler("respond error")>>
                              ELSE IF rep = "none" THEN <<complete>>
                              ELSE IF rep = "error"
                              THEN <<complete, replicate, TaskErrorHandler(err)>>
                              ELSE <<complete, replicate>>]
       /\ IF ~responded
          THEN /\ history' = Scheduled \o
                      <<PlainEvent(Len(Scheduled) + 1, "DecisionTaskTimedOut")>>
               /\ UNCHANGED <<previousStartedEventId, emitted, closed>>
          ELSE /\ emitted' = Append(emitted, t.state.StateVersion)
               /\ closed' = HasDecision(t.decisions, "CompleteWorkflowExecution")
               /\ IF ~closed' /\ HasDecision(t.decisions, "ContinueAsNewWorkflowExecution")
                  THEN /\ history' = <<WorkflowExecutionStarted(ContinueInput(t.decisions))>>
                       /\ previousStartedEventId' = 0
                  ELSE /\ history' = events
                       /\ previousStartedEventId' = Len(history) + 2
       /\ UNCHANGED <<cor, corLog, interceptor, pollVars, responses, unitVars>>

\* handleDecisionTask of an FSM without a ReplicationHandler, whose responses
\* the service accepts
Respond(t) == handleDecisionTask(t, FALSE, "none")

Unprocessed == Len(findLastEvents(previousStartedEventId, DecisionTask.Events))

EntryErrorState == findSerializedErrorState(DecisionTask.Events)

\* FSM.taskReady from the i-th event of the task on, with the flags the
\* loop has set so far
RECURSIVE readyFrom(_, _, _, _, _)
readyFrom(task, i, state, correlator, prev) ==
    IF i > Len(task.Events) THEN FALSE
    ELSE LET e == task.Events[i]
             state2 == state \/ isStateMarker(e)
             correlator2 == correlator \/ isCorrelatorMarker(e)
             prev2 == prev \/ e.EventId <= task.PreviousStartedEventId
         IN IF state2 /\ correlator2 /\ prev2 THEN TRUE
            ELSE IF e.EventType = "WorkflowExecutionStarted" THEN TRUE
            ELSE readyFrom(task, i + 1, state2, correlator2, prev2)

\* a taskReady that does not wait for an event the previous task has seen
taskReady_markersOnly(task) ==
    \/ \E e \in {task.Events[i] : i \in 1..Len(task.Events)} :
          e.EventType = "WorkflowExecutionStarted"
    \/ /\ \E i \in 1..Len(task.Events) : isStateMarker(task.Events[i])
       /\ \E i \in 1..Len(task.Events) : isCorrelatorMarker(task.Events[i])

taskReady(task) == readyFrom(task, 1, FALSE, FALSE, FALSE)

\* a decision task of a workflow that is not in error state
HandleDecisionTask ==
    /\ ~closed
    /\ ticks < MaxTicks
    /\ Triggered
    /\ EntryErrorState = Nil
    /\ \E behs \in Scripts(Unprocessed) :
          Respond(Tick(DecisionTask, interceptor, behs, "nil", << >>))

\* a decision task of a workflow whose history holds an FSM.Error marker:
\* the handler answers eh, and in the shadow tick every decider does sb
HandleErrorStateTask ==
    /\ ~closed
    /\ ticks < MaxTicks
    /\ Triggered
    /\ EntryErrorState # Nil
    /\ \E eh \in {"nil", "handled"}, sb \in Behaviours :
          LET filtered == filteredDecisionTask(DecisionTask, EntryErrorState)
              replayed == Len(findLastEvents(filtered.PreviousStartedEventId,
                                             filtered.Events))
              sbehs == [i \in 1..replayed |-> sb]
              recovery == ErrorStateTick(DecisionTask, EntryErrorState, interceptor, eh, sbehs)
              folds == ~recovery.crash /\ recovery.outcome # Nil
          IN /\ eh = "nil" => sb = "pass"
             /\ \E behs \in Scripts(IF folds THEN Unprocessed ELSE 0) :
                   Respond(Tick(DecisionTask, interceptor, behs, eh, sbehs))

(***************************************************************************)
(* Package poller (unnamed/part_000): the goroutines that run              *)
(* PollUntilShutdownBy, each at a position pc of the function, the         *)
(* ShutdownManager with the position of its StopPollers call, and FSM.Stop *)
(* (unnamed/part_003).  A channel of capacity 1 is the number of values in *)
(* it; the mutex rpMu is held exactly while StopPollers runs, Register     *)
(* being one step.  A poller is identified by the name it registers.       *)
(***************************************************************************)
FSMPoller == "fsm-poller"
WorkerPoller == "worker-poller"
Pollers == {FSMPoller, WorkerPoller}

\* a goroutine started by a second FSM that has the name of the first: the
\* name both register is fmt.Sprintf("%s-poller", f.Name)
SecondFSMPoller == "fsm-poller#2"
Goroutines == Pollers \cup {SecondFSMPoller}
PollerName(p) == IF p = SecondFSMPoller THEN FSMPoller ELSE p

MaxPollTasks == 1   \* tasks a poller finds on its task list
MaxStops == 2       \* calls of StopPollers, and calls of FSM.Stop

notPollVars ==
    <<history, previousStartedEventId, ticks, last, emitted, closed, cor, corLog,
      interceptor, report, responses, unitVars>>

\* a goroutine that has not been started: tasks counts the tasks Poll
\* returned, calls the calls of onTask, acks the sends on stopAck, missed
\* says that a Poll returned an error or no task
NewPoller ==
    [pc |-> "unstarted", stop |-> 0, stopAck |-> 0, tasks |-> 0, calls |-> 0,
     acks |-> 0, missed |-> FALSE]

\* registered is the order of the Register calls; snapshot, sent and acked
\* are the registry, the sends and the receives of the last StopPollers call
NewShutdownManager ==
    [pc |-> "idle", registeredPollers |-> {}, registered |-> << >>,
     toSend |-> << >>, toAck |-> << >>, snapshot |-> {}, sent |-> << >>,
     acked |-> << >>, calls |-> 0]

\* the orders in which a range statement can visit the keys of a map
RangeOrders(keys) ==
    {s \in [1..Cardinality(keys) -> keys] :
        \A i \in DOMAIN s : \A j \in DOMAIN s : i # j => s[i] # s[j]}

\* FSM.Start, ActivityWorker.Start: go poller.PollUntilShutdownBy(...)
Start(p) ==
    /\ pollers[p].pc = "unstarted"
    /\ pollers' = [pollers EXCEPT ![p].pc = "register"]
    /\ UNCHANGED <<mgr, fsmStop, notPollVars>>

\* mgr.Register(pollerName, stop, stopAck) with the two new channels:
\* registeredPollers[name] is assigned, replacing the entry the name had
Register(p) ==
    /\ pollers[p].pc = "register"
    /\ mgr.pc = "idle"
    /\ mgr' = [mgr EXCEPT !.registeredPollers =
                              {q \in @ : PollerName(q) # PollerName(p)} \cup {p},
                          !.registered = Append(@, p)]
    /\ pollers' = [pollers EXCEPT ![p].pc = "loop"]
    /\ UNCHANGED <<fsmStop, notPollVars>>

\* the select at the top of the loop, polling although a stop is pending
Select_ignoreStop(p) ==
    /\ pollers[p].pc = "loop"
    /\ pollers' = [pollers EXCEPT ![p].pc = "poll"]
    /\ UNCHANGED <<mgr, fsmStop, notPollVars>>

\* the select at the top of the loop: case <-stop, or default
Select(p) ==
    /\ pollers[p].pc = "loop"
    /\ pollers' = IF pollers[p].stop > 0
                  THEN [pollers EXCEPT ![p].stop = 0, ![p].pc = "ack"]
                  ELSE [pollers EXCEPT ![p].pc = "poll"]
    /\ UNCHANGED <<mgr, fsmStop, notPollVars>>

\* p.Poll returns an error, no task, or a task
Poll(p) ==
    /\ pollers[p].pc = "poll"
    /\ \/ pollers' = [pollers EXCEPT ![p].pc = "loop", ![p].missed = TRUE]
       \/ /\ pollers[p].tasks < MaxPollTasks
          /\ pollers' = [pollers EXCEPT ![p].pc = "onTask", ![p].tasks = @ + 1]
    /\ UNCHANGED <<mgr, fsmStop, notPollVars>>

\* onTask(ctx, task) returns
OnTask(p) ==
    /\ pollers[p].pc = "onTask"
    /\ pollers' = [pollers EXCEPT ![p].pc = "loop", ![p].calls = @ + 1]
    /\ UNCHANGED <<mgr, fsmStop, notPollVars>>

\* stopAck <- true; return
Ack(p) ==
    /\ pollers[p].pc = "ack"
    /\ pollers[p].stopAck = 0
    /\ pollers' = [pollers EXCEPT ![p].pc = "returned", ![p].stopAck = 1,
                                  ![p].acks = @ + 1]
    /\ UNCHANGED <<mgr, fsmStop, notPollVars>>

\* StopPollers takes the mutex and enters the loop of the sends
StopPollers ==
    /\ mgr.pc = "idle"
    /\ mgr.calls < MaxStops
    /\ \E order \in RangeOrders(mgr.registeredPollers) :
          mgr' = [mgr EXCEPT !.pc = "sending", !.toSend = order,
                             !.snapshot = mgr.registeredPollers,
                             !.sent = << >>, !.acked = << >>]
    /\ UNCHANGED <<pollers, fsmStop, notPollVars>>

\* r.stopChannel <- true
SendStop ==
    /\ mgr.pc = "sending"
    /\ mgr.toSend # << >>
    /\ pollers[Head(mgr.toSend)].stop = 0
    /\ pollers' = [pollers EXCEPT ![Head(mgr.toSend)].stop = 1]
    /\ mgr' = [mgr EXCEPT !.toSend = Tail(@), !.sent = Append(@, Head(mgr.toSend))]
    /\ UNCHANGED <<fsmStop, notPollVars>>

\* the loop of the receives entered while stops are still to be sent
AwaitAcks_early ==
    /\ mgr.pc = "sending"
    /\ mgr.sent # << >> \/ mgr.toSend = << >>
    /\ \E order \in RangeOrders(mgr.registeredPollers) :
          mgr' = [mgr EXCEPT !.pc = "awaiting", !.toAck = order]
    /\ UNCHANGED <<pollers, fsmStop, notPollVars>>

\* the loop of the sends is over: the loop of the receives is entered
AwaitAcks ==
    /\ mgr.pc = "sending"
    /\ mgr.toSend = << >>
    /\ \E order \in RangeOrders(mgr.registeredPollers) :
          mgr' = [mgr EXCEPT !.pc = "awaiting", !.toAck = order]
    /\ UNCHANGED <<pollers, fsmStop, notPollVars>>

\* <-r.stopAckChannel
ReceiveAck ==
    /\ mgr.pc = "awaiting"
    /\ mgr.toAck # << >>
    /\ pollers[Head(mgr.toAck)].stopAck = 1
    /\ pollers' = [pollers EXCEPT ![Head(mgr.toAck)].stopAck = 0]
    /\ mgr' = [mgr EXCEPT !.toAck = Tail(@), !.acked = Append(@, Head(mgr.toAck))]
    /\ UNCHANGED <<fsmStop, notPollVars>>

\* the registry is replaced by an empty map and the mutex is released
StopPollersReturn ==
    /\ mgr.pc = "awaiting"
    /\ mgr.toAck = << >>
    /\ mgr' = [mgr EXCEPT !.pc = "idle", !.registeredPollers = {}, !.calls = @ + 1]
    /\ UNCHANGED <<pollers, fsmStop, notPollVars>>

\* FSM.Stop on a started FSM: f.stop <- true.  No code receives from f.stop,
\* so a send on the full channel blocks for ever.
NewFSMStop == [stop |-> 0, blocked |-> 0, returned |-> 0]

Stop ==
    /\ pollers[FSMPoller].pc # "unstarted"
    /\ fsmStop.blocked + fsmStop.returned < MaxStops
    /\ fsmStop' = IF fsmStop.stop = 0
                  THEN [fsmStop EXCEPT !.stop = 1, !.returned = @ + 1]
                  ELSE [fsmStop EXCEPT !.blocked = @ + 1]
    /\ UNCHANGED <<pollers, mgr, notPollVars>>

\* no poller, a new ShutdownManager
PollIdle ==
    /\ pollers = [p \in Goroutines |-> NewPoller]
    /\ mgr = NewShutdownManager
    /\ fsmStop = NewFSMStop

(***************************************************************************)
(* ActivityWorker (unnamed/part_005).  A *string is Nil or [text |-> t],   *)
(* where t is <<"raw", s>> for the string s and Serialize(v) for the JSON  *)
(* text of v.  A worker has one handler, for the activity type "test".     *)
(***************************************************************************)
MaxActivityTasks == 1   \* activity tasks handed to the worker

String(s) == [text |-> <<"raw", s>>]

ActivityTypeNames == {"test", "nottest"}

\* task.Input: nil, the JSON text of a value, a text that is not JSON
TaskInputs == {Nil, [text |-> Serialize([struct |-> "input"])], String("garbage")}

\* the type of handler.Input
HandlerInputs == {"string", "struct"}

\* what handler.HandlerFunc does
HandlerFuncs ==
    {"nil", "string", "struct", "unserializable", "error", "canceled",
     "canceled with details", "panic"}

Returned(result, err) == [panic |-> FALSE, result |-> result, err |-> err]

HandlerFunc(f) ==
    CASE f = "nil" -> Returned(Nil, Nil)
      [] f = "string" -> Returned([string |-> "done"], Nil)
      [] f = "struct" -> Returned([struct |-> "output"], Nil)
      [] f = "unserializable" -> Returned([struct |-> "chan"], Nil)
      [] f = "error" -> Returned(Nil, [canceled |-> FALSE, details |-> "boom"])
      [] f = "canceled" -> Returned(Nil, [canceled |-> TRUE, details |-> ""])
      [] f = "canceled with details" -> Returned(Nil, [canceled |-> TRUE, details |-> "why"])
      [] OTHER -> [panic |-> TRUE, result |-> Nil, err |-> Nil]

\* the AfterTask hook of an interceptor that has no function set
AfterTask(r) == r

\* ActivityTaskCanceledError.Details
Details(e) == IF e.details = "" THEN Nil ELSE String(e.details)

\* what handling a task did: whether the handler function was called, whether
\* a panic is leaving the function, and the Respond calls made
Handled(invoked, panic, calls) == [invoked |-> invoked, panic |-> panic, calls |-> calls]

fail(err) == <<[kind |-> "RespondActivityTaskFailed", payload |-> String(err)]>>

done(result) == <<[kind |-> "RespondActivityTaskCompleted", payload |-> result]>>

canceled(details) == <<[kind |-> "RespondActivityTaskCanceled", payload |-> details]>>

\* result serializing every result that is not nil
result_serializeAll(r) ==
    IF r = Nil THEN done(Nil)
    ELSE IF r = [struct |-> "chan"] THEN fail("serialize")
    ELSE done([text |-> Serialize(r)])

result(r) ==
    IF "string" \in DOMAIN r THEN done(String(r.string))
    ELSE IF r = Nil THEN done(Nil)
    ELSE IF r = [struct |-> "chan"] THEN fail("serialize")
    ELSE done([text |-> Serialize(r)])

handleActivityTask(a, task) ==
    LET handler == MapGet(a.handlers, task.Name, Nil) IN
    IF handler = Nil THEN Handled(FALSE, FALSE, fail("no handler for activity"))
    ELSE IF /\ task.Input # Nil
            /\ handler.Input # "string"
            /\ ~CanDeserialize(task.Input.text)
    THEN Handled(FALSE, FALSE, fail("deserialize"))
    ELSE LET r == AfterTask(HandlerFunc(handler.HandlerFunc)) IN
         IF r.panic THEN Handled(TRUE, TRUE, << >>)
         ELSE IF r.err # Nil
         THEN IF r.err.canceled THEN Handled(TRUE, FALSE, canceled(Details(r.err)))
              ELSE Handled(TRUE, FALSE, fail("handler"))
         ELSE Handled(TRUE, FALSE, result(r.result))

\* handleActivityTask under the deferred recover
handleWithRecovery(a, task) ==
    LET h == handleActivityTask(a, task) IN
    IF h.panic THEN Handled(h.invoked, FALSE, h.calls \o fail("panic")) ELSE h

dispatchTask(a, task) ==
    IF a.AllowPanics THEN handleActivityTask(a, task) ELSE handleWithRecovery(a, task)

\* the poller hands a task to a worker
DispatchActivityTask ==
    /\ Len(responses) < MaxActivityTasks
    /\ \E name \in ActivityTypeNames, input \in TaskInputs, kind \in HandlerInputs,
          f \in HandlerFuncs, allowPanics \in BOOLEAN :
          LET a == [handlers |-> MapPut(EmptyMap, "test",
                                        [Input |-> kind, HandlerFunc |-> f]),
                    AllowPanics |-> allowPanics]
              task == [Name |-> name, Input |-> input]
          IN responses' = Append(responses,
                                 [worker |-> a, task |-> task] @@ dispatchTask(a, task))
    /\ UNCHANGED <<history, previousStartedEventId, ticks, last, emitted, closed, cor,
                   corLog, interceptor, report, pollVars, unitVars>>

(***************************************************************************)
(* ActivityWorker.fail with BackoffOnFailure (unnamed/part_005).  The      *)
(* history is the page GetWorkflowExecutionHistory returns, newest event   *)
(* first.  A sleep is a whole number of seconds.                           *)
(***************************************************************************)
MaxAttempts == 32   \* the largest attempt counter in a correlator marker
MaxFetched == 2     \* events in the fetched history
MaxFails == 1       \* calls of ActivityWorker.fail

\* int(math.Pow(2, float64(exp))): the conversion truncates 0.5 to 0
PowInt(exp) == IF exp < 0 THEN 0 ELSE 2 ^ exp

backoff(h, attempts) ==
    LET exp == IF attempts - 1 > 30 THEN 30 ELSE attempts - 1 IN
    IF PowInt(exp) > h.MaxBackoffSeconds THEN h.MaxBackoffSeconds ELSE PowInt(exp)

Sleep(seconds) == [op |-> "Sleep", seconds |-> seconds]

\* fail(task, err) when GetWorkflowExecutionHistory returns fetched
failAfterBackoff(h, task, err, fetched) ==
    LET events == fetched.Events
        i == FirstIndex([k \in 1..Len(events) |-> isCorrelatorMarker(events[k])])
        slept ==
            IF ~h.BackoffOnFailure \/ fetched.err \/ i = 0 THEN << >>
            ELSE IF ~CanDeserialize(events[i].Details) THEN << >>
            ELSE <<Sleep(backoff(h, MapGet(Deserialize(events[i].Details).ActivityAttempts,
                                           task.ActivityID, 0)))>>
    IN slept \o <<[op |-> "RespondActivityTaskFailed", payload |-> String(err)]>>

\* the ActivityAttempts of a correlator: counters are at least 1
AttemptMaps ==
    {EmptyMap, MapPut(EmptyMap, "b", 1)} \cup
    {MapPut(EmptyMap, "a", n) : n \in 1..MaxAttempts}

\* the events of a history the worker looks at
FetchedEvents ==
    {PlainEvent(0, "ActivityTaskStarted"),
     Event(0, "MarkerRecorded", 0, "", StateMarker, EmptyText),
     Event(0, "MarkerRecorded", 0, "", CorrelatorMarker, EmptyText)} \cup
    {Event(0, "MarkerRecorded", 0, "", CorrelatorMarker,
           Serialize([ActivityAttempts |-> m])) : m \in AttemptMaps}

Fetched ==
    {[err |-> TRUE, Events |-> << >>]} \cup
    {[err |-> FALSE, Events |-> s] :
        s \in UNION {[1..n -> FetchedEvents] : n \in 0..MaxFetched}}

MaxBackoffs == {0, 1, 60}

\* the handler of the activity "a" failed
FailActivityTask ==
    /\ Len(backoffs) < MaxFails
    /\ \E backoffOnFailure \in BOOLEAN, maxBackoff \in MaxBackoffs, fetched \in Fetched :
          LET h == [BackoffOnFailure |-> backoffOnFailure, MaxBackoffSeconds |-> maxBackoff]
              task == [ActivityID |-> "a"]
          IN backoffs' = Append(backoffs,
                                [worker |-> h, task |-> task, fetched |-> fetched,
                                 did |-> failAfterBackoff(h, task, "handler", fetched)])
    /\ UNCHANGED <<history, previousStartedEventId, ticks, last, emitted, closed, cor,
                   corLog, interceptor, report, pollVars, responses, outcomes, dispatcher, paging>>

(***************************************************************************)
(* The built-in decision interceptors, as functions from the decisions of  *)
(* an outcome to the decisions they leave in it.  FSM.                     *)
(* DefaultDecisionInterceptor (unnamed/part_003) composes three of them.   *)
(***************************************************************************)
MaxDecisions == 4   \* decisions of an outcome given to an interceptor
MaxOutcomes == 1    \* outcomes given to an interceptor

RECURSIVE KeepFrom(_, _, _)
\* the decisions ds[i], ds[i+1], ... whose index is in keep
KeepFrom(ds, keep, i) ==
    IF i > Len(ds) THEN << >>
    ELSE (IF i \in keep THEN <<ds[i]>> ELSE << >>) \o KeepFrom(ds, keep, i + 1)

CloseDecisionTypes ==
    {"CompleteWorkflowExecution", "CancelWorkflowExecution", "FailWorkflowExecution"}

isCloseDecision(d) == d.DecisionType \in CloseDecisionTypes

\* keep only the last of each close kind
DedupeWorkflowCloseDecisions(ds) ==
    KeepFrom(ds, {i \in 1..Len(ds) :
                    isCloseDecision(ds[i]) =>
                        \A j \in (i + 1)..Len(ds) :
                            ds[j].DecisionType # ds[i].DecisionType}, 1)

MoveWorkflowCloseDecisionsToEnd(ds) ==
    SelectSeq(ds, LAMBDA d : ~isCloseDecision(d)) \o SelectSeq(ds, isCloseDecision)

\* keep only the close decisions of the first type of prioritized that is
\* present
RemoveLowerPriorityDecisions(prioritized, ds) ==
    LET present == {i \in 1..Len(prioritized) : HasDecision(ds, prioritized[i])} IN
    IF present = {} THEN ds
    ELSE LET top == CHOOSE i \in present : \A j \in present : i <= j
             lower == {prioritized[j] : j \in (top + 1)..Len(prioritized)}
         IN SelectSeq(ds, LAMBDA d : d.DecisionType \notin lower)

\* the chain without its first interceptor
DefaultDecisionInterceptor_noDedupe(ds) ==
    RemoveLowerPriorityDecisions(
        <<"FailWorkflowExecution", "CompleteWorkflowExecution", "CancelWorkflowExecution">>,
        MoveWorkflowCloseDecisionsToEnd(ds))

\* AfterDecision of the composed interceptor: each interceptor in turn
DefaultDecisionInterceptor(ds) ==
    RemoveLowerPriorityDecisions(
        <<"FailWorkflowExecution", "CompleteWorkflowExecution", "CancelWorkflowExecution">>,
        MoveWorkflowCloseDecisionsToEnd(DedupeWorkflowCloseDecisions(ds)))

StartTimer(timerId) == Decision("StartTimer", timerId, "", EmptyText)

\* the decisions an outcome may hold when the default interceptor sees it
CloseCandidates ==
    {Decision(type, "", "", EmptyText) : type \in CloseDecisionTypes} \cup
    {ScheduleActivityTask("a"), StartTimer("t")}

DecisionLists(candidates) ==
    UNION {[1..n -> candidates] : n \in 0..MaxDecisions}

Intercepted(ic, in, out) == [interceptor |-> ic, in |-> in, out |-> out]

InterceptDefault ==
    /\ Len(outcomes) < MaxOutcomes
    /\ \E ds \in DecisionLists(CloseCandidates) :
          outcomes' = Append(outcomes,
                             Intercepted("default", ds, DefaultDecisionInterceptor(ds)))
    /\ UNCHANGED <<history, previousStartedEventId, ticks, last, emitted, closed, cor,
                   corLog, interceptor, report, pollVars, responses, backoffs, dispatcher, paging>>

\* StartCancelElision: the Start and the Cancel decision type of each kind
StartCancelPairs ==
    {[start |-> "StartChildWorkflowExecution",
      cancel |-> "RequestCancelExternalWorkflowExecution"],
     [start |-> "ScheduleActivityTask", cancel |-> "RequestCancelActivityTask"],
     [start |-> "StartTimer", cancel |-> "CancelTimer"]}

\* d is a Start decision and c the Cancel decision of its kind for its id
StartThenCancel(d, c) ==
    \E pair \in StartCancelPairs :
        /\ d.DecisionType = pair.start
        /\ c.DecisionType = pair.cancel
        /\ d.Id = c.Id

RECURSIVE handleStartCancelTypes_anyStart(_)
\* the elision taking for a Cancel the nearest Start before it, adjacent or not
handleStartCancelTypes_anyStart(in) ==
    IF in = << >> THEN << >>
    ELSE LET out == handleStartCancelTypes_anyStart(SubSeq(in, 1, Len(in) - 1))
             c == in[Len(in)]
             starts == {i \in 1..Len(out) : StartThenCancel(out[i], c)}
         IN IF starts = {} THEN Append(out, c)
            ELSE LET s == CHOOSE i \in starts : \A j \in starts : j <= i
                 IN SubSeq(out, 1, s - 1) \o SubSeq(out, s + 1, Len(out))

RECURSIVE handleStartCancelTypes(_)
\* a Start immediately followed by its Cancel is dropped with it
handleStartCancelTypes(in) ==
    IF in = << >> THEN << >>
    ELSE IF Len(in) >= 2 /\ StartThenCancel(in[1], in[2])
    THEN handleStartCancelTypes(SubSeq(in, 3, Len(in)))
    ELSE <<in[1]>> \o handleStartCancelTypes(Tail(in))

StartCancelCandidates ==
    {Decision(type, id, "", EmptyText) :
        type \in {"ScheduleActivityTask", "RequestCancelActivityTask"}, id \in {"a", "b"}} \cup
    {Decision(type, "a", "", EmptyText) :
        type \in {"StartChildWorkflowExecution", "RequestCancelExternalWorkflowExecution",
                  "StartTimer", "CancelTimer"}} \cup
    {recordStringMarker("marker", EmptyText)}

InterceptStartCancel ==
    /\ Len(outcomes) < MaxOutcomes
    /\ \E ds \in DecisionLists(StartCancelCandidates) :
          outcomes' = Append(outcomes,
                             Intercepted("startCancel", ds, handleStartCancelTypes(ds)))
    /\ UNCHANGED <<history, previousStartedEventId, ticks, last, emitted, closed, cor,
                   corLog, interceptor, report, pollVars, responses, backoffs, dispatcher, paging>>

\* FSM.ContinueWorkflow, the id of the timer and the name of the signal
ContinueTimer == "FSM.ContinueWorkflow"
ContinueSignal == "FSM.ContinueWorkflow"

\* the task asks for a continuation: the timer fired, the signal came, or
\* the history has grown beyond historyLimit
ContinuationDue(historyLimit, task) ==
    \E k \in 1..Len(task.Events) :
        LET e == task.Events[k] IN
        \/ e.EventType = "TimerFired" /\ e.Id = ContinueTimer
        \/ e.EventType = "WorkflowExecutionSignaled" /\ e.Name = ContinueSignal
        \/ e.EventId > historyLimit

\* AfterDecision continuing the workflow whatever activities are outstanding
ManagedContinuations_ignoreActivities(historyLimit, task, ctx, outcome) ==
    [outcome EXCEPT !.Decisions =
        @ \o (IF \E k \in 1..Len(task.Events) :
                    task.Events[k].EventType = "WorkflowExecutionStarted"
              THEN <<StartTimer(ContinueTimer)>> ELSE << >>)
          \o (IF ContinuationDue(historyLimit, task)
              THEN <<ContinueWorkflowDecision(ctx, outcome.State, outcome.Data)>>
              ELSE << >>)]

\* ManagedContinuations(historyLimit, ageSeconds, retrySeconds).AfterDecision
ManagedContinuations(historyLimit, task, ctx, outcome) ==
    [outcome EXCEPT !.Decisions =
        @ \o (IF \E k \in 1..Len(task.Events) :
                    task.Events[k].EventType = "WorkflowExecutionStarted"
              THEN <<StartTimer(ContinueTimer)>> ELSE << >>)
          \o (IF ~ContinuationDue(historyLimit, task) THEN << >>
              ELSE IF DOMAIN ctx.eventCorrelator.Activities = {}
              THEN <<ContinueWorkflowDecision(ctx, outcome.State, outcome.Data)>>
              ELSE <<StartTimer(ContinueTimer)>>)]

HistoryLimit == 3   \* ManagedContinuations(3, 1000, 10), as in the test
MaxTaskEvents == 2  \* events of the task an interceptor is given

ContinuationEvents ==
    {Event(1, "WorkflowExecutionStarted", 0, "", "", EmptyText),
     Event(2, "TimerFired", 0, ContinueTimer, "", EmptyText),
     Event(2, "TimerFired", 0, "other", "", EmptyText),
     Event(3, "WorkflowExecutionSignaled", 0, "", ContinueSignal, EmptyText),
     Event(3, "WorkflowExecutionSignaled", 0, "", "other", EmptyText),
     Event(2, "ActivityTaskCompleted", 1, "", "", EmptyText),
     Event(HistoryLimit + 1, "ExternalWorkflowExecutionSignaled", 0, "", "", EmptyText)}

InterceptContinuations ==
    /\ Len(outcomes) < MaxOutcomes
    /\ \E n \in 0..MaxTaskEvents, outstanding \in SUBSET {"1"},
          ds \in {<< >>, <<ScheduleActivityTask("a")>>} :
          \E events \in [1..n -> ContinuationEvents] :
             LET task == [Events |-> events]
                 ctx == [stateVersion |-> 1, State |-> "state",
                         eventCorrelator |->
                            [Activities |-> [k \in outstanding |->
                                [ActivityId |-> "a", ActivityType |-> "activity"]]]]
                 outcome == ManagedContinuations(HistoryLimit, task, ctx,
                                                 Outcome("state", ZeroData, ds))
             IN outcomes' = Append(outcomes,
                                   [task |-> task, ctx |-> ctx] @@
                                   Intercepted("continuations", ds, outcome.Decisions))
    /\ UNCHANGED <<history, previousStartedEventId, ticks, last, emitted, closed, cor,
                   corLog, interceptor, report, pollVars, responses, backoffs, dispatcher, paging>>

(***************************************************************************)
(* The task dispatchers (fsm/dispatchers.go).  The polling goroutine calls *)
(* DispatchTask; poll is its position: "idle" outside the call, "handling" *)
(* while it runs the handler itself, "sending" while it is blocked in      *)
(* b.tasks <- task, the channel having no buffer.  workers maps each       *)
(* goroutine of the pool to the task it handles, 0 when it waits in its    *)
(* select; spawned holds the tasks of the goroutines go handler(task)      *)
(* started.  Tasks are numbered in the order they are dispatched.          *)
(***************************************************************************)
MaxGoroutines == 3   \* the largest NumGoroutines
MaxDispatched == 4   \* tasks the poller hands to DispatchTask

DispatcherKinds == {"CallingGoroutineDispatcher", "NewGoroutineDispatcher",
                    "BoundedGoroutineDispatcher"}

dispatchVars ==
    <<history, previousStartedEventId, ticks, last, emitted, closed, cor, corLog,
      interceptor, report, pollVars, responses, backoffs, outcomes, paging>>

\* &BoundedGoroutineDispatcher{NumGoroutines: n} and the other two
MakeDispatcher ==
    /\ dispatcher = Nil
    /\ \E kind \in DispatcherKinds, n \in 0..MaxGoroutines :
          /\ kind # "BoundedGoroutineDispatcher" => n = 0
          /\ dispatcher' = [kind |-> kind, NumGoroutines |-> n, started |-> FALSE,
                            workers |-> << >>, spawned |-> {},
                            poll |-> [pc |-> "idle", task |-> 0],
                            dispatched |-> 0,
                            handled |-> [t \in 1..MaxDispatched |-> 0]]
    /\ UNCHANGED dispatchVars

\* the lazy start of the pool
startWorkers(b) ==
    IF b.started THEN b
    ELSE LET n == IF b.NumGoroutines = 0 THEN 1 ELSE b.NumGoroutines IN
         [b EXCEPT !.NumGoroutines = n, !.workers = [w \in 1..n |-> 0],
                   !.started = TRUE]

\* DispatchTask up to the point where it returns or blocks
DispatchTask ==
    /\ dispatcher # Nil
    /\ dispatcher.poll.pc = "idle"
    /\ dispatcher.dispatched < MaxDispatched
    /\ LET task == dispatcher.dispatched + 1
           b == [dispatcher EXCEPT !.dispatched = task]
       IN dispatcher' =
            CASE b.kind = "CallingGoroutineDispatcher" ->
                   [b EXCEPT !.poll = [pc |-> "handling", task |-> task]]
              [] b.kind = "NewGoroutineDispatcher" ->
                   [b EXCEPT !.spawned = @ \cup {task}]
              [] b.kind = "BoundedGoroutineDispatcher" ->
                   [startWorkers(b) EXCEPT !.poll = [pc |-> "sending", task |-> task]]
    /\ UNCHANGED dispatchVars

\* a worker taking a task although it is handling one
Receive_whileHandling(w) ==
    /\ dispatcher # Nil
    /\ w \in DOMAIN dispatcher.workers
    /\ dispatcher.poll.pc = "sending"
    /\ dispatcher' = [dispatcher EXCEPT !.workers[w] = dispatcher.poll.task,
                                        !.poll = [pc |-> "idle", task |-> 0]]
    /\ UNCHANGED dispatchVars

\* case t := <-b.tasks in a waiting worker: the send completes and
\* DispatchTask returns
Receive(w) ==
    /\ dispatcher # Nil
    /\ w \in DOMAIN dispatcher.workers
    /\ dispatcher.workers[w] = 0
    /\ dispatcher.poll.pc = "sending"
    /\ dispatcher' = [dispatcher EXCEPT !.workers[w] = dispatcher.poll.task,
                                        !.poll = [pc |-> "idle", task |-> 0]]
    /\ UNCHANGED dispatchVars

\* handler(t) returns in a worker of the pool
WorkerReturn(w) ==
    /\ dispatcher # Nil
    /\ w \in DOMAIN dispatcher.workers
    /\ dispatcher.workers[w] # 0
    /\ dispatcher' = [dispatcher EXCEPT !.handled[dispatcher.workers[w]] = @ + 1,
                                        !.workers[w] = 0]
    /\ UNCHANGED dispatchVars

\* handler(task) returns in a goroutine of its own
SpawnedReturn(t) ==
    /\ dispatcher # Nil
    /\ t \in dispatcher.spawned
    /\ dispatcher' = [dispatcher EXCEPT !.handled[t] = @ + 1, !.spawned = @ \ {t}]
    /\ UNCHANGED dispatchVars

\* handler(task) returns in the polling goroutine, and DispatchTask with it
InlineReturn ==
    /\ dispatcher # Nil
    /\ dispatcher.poll.pc = "handling"
    /\ dispatcher' = [dispatcher EXCEPT !.handled[dispatcher.poll.task] = @ + 1,
                                        !.poll = [pc |-> "idle", task |-> 0]]
    /\ UNCHANGED dispatchVars

(***************************************************************************)
(* DecisionTaskPoller.Poll (unnamed/part_000): PollForDecisionTaskPages    *)
(* hands the pages of one response to eachPage, one after the other, for   *)
(* as long as eachPage returns true and there is a next page, or returns   *)
(* an error.  A response without task has one page without task token and  *)
(* without events.  paging holds the pages the service has, the pages      *)
(* handed over so far, the task accumulated in resp, what taskReady        *)
(* answered after each page, and what Poll returned.                       *)
(***************************************************************************)
MaxPagedEvents == 4   \* events of a history that is fetched in pages
MaxPageSize == 2      \* events of a page

PagedTypes == {StateMarker, CorrelatorMarker, "signal"}

PagedEvent(id, type) ==
    IF id = 1 THEN Event(1, "WorkflowExecutionStarted", 0, "", "", EmptyText)
    ELSE IF type = "signal" THEN Event(id, "WorkflowExecutionSignaled", 0, "", "sig", EmptyText)
    ELSE Event(id, "MarkerRecorded", 0, "", type, EmptyText)

\* the histories of n events, newest first, that follow a start event
PagedHistories(n) ==
    {[i \in 1..n |-> PagedEvent(n + 1 - i, types[n + 1 - i])] : types \in [1..n -> PagedTypes]}

\* the pages of size events of a history
Pages(events, size) ==
    [k \in 1..((Len(events) + size - 1) \div size) |->
        SubSeq(events, (k - 1) * size + 1,
               IF k * size < Len(events) THEN k * size ELSE Len(events))]

\* the events of the first n pages, in the order received
RECURSIVE Accumulated(_, _)
Accumulated(pages, n) ==
    IF n = 0 THEN << >> ELSE Accumulated(pages, n - 1) \o pages[n]

\* Poll is called: what the service will answer
StartPoll ==
    /\ paging = Nil
    /\ \/ paging' = [pages |-> << << >> >>, token |-> FALSE, prev |-> 0, served |-> 0,
                     resp |-> Nil, ready |-> << >>, more |-> TRUE, pc |-> "paging",
                     returned |-> Nil]
       \/ \E n \in 1..MaxPagedEvents, size \in 1..MaxPageSize :
             \E events \in PagedHistories(n), prev \in 0..(n - 1) :
                paging' = [pages |-> Pages(events, size), token |-> TRUE, prev |-> prev,
                           served |-> 0, resp |-> Nil, ready |-> << >>, more |-> TRUE,
                           pc |-> "paging", returned |-> Nil]
    /\ UNCHANGED <<history, previousStartedEventId, ticks, last, emitted, closed, cor,
                   corLog, interceptor, report, pollVars, responses, backoffs, outcomes,
                   dispatcher>>

\* eachPage that asks for the next page whatever taskReady answers
EachPage_ignoreReady ==
    /\ paging # Nil
    /\ paging.pc = "paging"
    /\ paging.served < Len(paging.pages)
    /\ LET out == paging.pages[paging.served + 1]
           resp == IF paging.resp = Nil
                   THEN [Events |-> out, PreviousStartedEventId |-> paging.prev,
                         TaskToken |-> paging.token]
                   ELSE [paging.resp EXCEPT !.Events = @ \o out]
       IN paging' = [paging EXCEPT !.served = @ + 1, !.resp = resp,
                                   !.ready = Append(@, taskReady(resp)),
                                   !.more = TRUE]
    /\ UNCHANGED <<history, previousStartedEventId, ticks, last, emitted, closed, cor,
                   corLog, interceptor, report, pollVars, responses, backoffs, outcomes,
                   dispatcher>>

\* eachPage is called with the next page: return !taskReady(resp)
EachPage ==
    /\ paging # Nil
    /\ paging.pc = "paging"
    /\ paging.more
    /\ paging.served < Len(paging.pages)
    /\ LET out == paging.pages[paging.served + 1]
           resp == IF paging.resp = Nil
                   THEN [Events |-> out, PreviousStartedEventId |-> paging.prev,
                         TaskToken |-> paging.token]
                   ELSE [paging.resp EXCEPT !.Events = @ \o out]
       IN paging' = [paging EXCEPT !.served = @ + 1, !.resp = resp,
                                   !.ready = Append(@, taskReady(resp)),
                                   !.more = ~taskReady(resp)]
    /\ UNCHANGED <<history, previousStartedEventId, ticks, last, emitted, closed, cor,
                   corLog, interceptor, report, pollVars, responses, backoffs, outcomes,
                   dispatcher>>

\* PollForDecisionTaskPages returns, with an error or without, and Poll
\* returns with it
PollReturns ==
    /\ paging # Nil
    /\ paging.pc = "paging"
    /\ \E err \in BOOLEAN :
          /\ ~err => (~paging.more \/ paging.served = Len(paging.pages))
          /\ paging' =
                [paging EXCEPT
                    !.pc = "returned",
                    !.returned =
                        IF err THEN [task |-> Nil, err |-> TRUE]
                        ELSE IF paging.resp # Nil /\ paging.resp.TaskToken
                        THEN [task |-> paging.resp, err |-> FALSE]
                        ELSE [task |-> Nil, err |-> FALSE]]
    /\ UNCHANGED <<history, previousStartedEventId, ticks, last, emitted, closed, cor,
                   corLog, interceptor, report, pollVars, responses, backoffs, outcomes,
                   dispatcher>>

PageNext == StartPoll \/ EachPage \/ PollReturns

\* nothing has been done with the units checked on their own
UnitIdle ==
    /\ backoffs = << >>
    /\ outcomes = << >>
    /\ dispatcher = Nil
    /\ paging = Nil

NoReport ==
    [responded |-> FALSE, decisions |-> << >>, replication |-> "none", errors |-> << >>,
     calls |-> << >>]

NoTick == [status |-> "none"]

Init ==
    /\ \E input \in StartInputs : history = <<WorkflowExecutionStarted(input)>>
    /\ previousStartedEventId = 0
    /\ ticks = 0
    /\ last = NoTick
    /\ emitted = << >>
    /\ closed = FALSE
    /\ cor = EmptyCorrelator
    /\ corLog = << >>
    /\ interceptor \in Interceptors
    /\ report = NoReport
    /\ PollIdle
    /\ responses = << >>
    /\ UnitIdle

Next == External \/ HandleDecisionTask \/ HandleErrorStateTask

Spec == Init /\ [][Next]_vars

(***************************************************************************)
(* The EventCorrelator on its own: a zero-value correlator receives Track  *)
(* and ForgetCorrelation calls with the events of one history, numbered in *)
(* the order they are tracked.                                             *)
(***************************************************************************)
ActivityIds == {"a", "b"}
WorkflowIds == {"w", "x"}

ActivityTaskScheduled(id, activityId) ==
    Event(id, "ActivityTaskScheduled", 0, activityId, "activity", EmptyText)

\* a terminal event of the activity scheduled by event scheduledEventId
ActivityTerminal(id, type, scheduledEventId) ==
    Event(id, type, scheduledEventId, "", "", EmptyText)

\* the events that initiate a signal, a cancellation request or a child, and
\* the events that end each of them
Initiators ==
    {"SignalExternalWorkflowExecutionInitiated",
     "RequestCancelExternalWorkflowExecutionInitiated",
     "StartChildWorkflowExecutionInitiated"}

TerminalsOf(initiator) ==
    CASE initiator = "ActivityTaskScheduled" -> ActivityTerminals
      [] initiator = "SignalExternalWorkflowExecutionInitiated" ->
           {"ExternalWorkflowExecutionSignaled", "SignalExternalWorkflowExecutionFailed"}
      [] initiator = "RequestCancelExternalWorkflowExecutionInitiated" ->
           {"ExternalWorkflowExecutionCancelRequested",
            "RequestCancelExternalWorkflowExecutionFailed"}
      [] initiator = "StartChildWorkflowExecutionInitiated" ->
           {"ChildWorkflowExecutionStarted", "StartChildWorkflowExecutionFailed"}
      [] OTHER -> {}

\* the events whose Track counts an attempt
FailureTypes ==
    {"ActivityTaskFailed", "ActivityTaskTimedOut", "SignalExternalWorkflowExecutionFailed",
     "RequestCancelExternalWorkflowExecutionFailed", "StartChildWorkflowExecutionFailed"}

Initiated(id, type, workflowId) == Event(id, type, 0, workflowId, "name", EmptyText)

Tracked == SelectSeq(corLog, LAMBDA c : c.op = "Track")

\* the tracked initiators of the type that no tracked event has ended
Open(type) ==
    {k \in 1..Len(Tracked) :
        /\ Tracked[k].h.EventType = type
        /\ \A j \in (k + 1)..Len(Tracked) :
              ~(Tracked[j].h.EventType \in TerminalsOf(type) /\ Tracked[j].h.Ref = k)}

\* the events the history can continue with: a history is about activities,
\* or about signals, or cancellations, or children, as its first event is;
\* an activity event can name any earlier event, the other events name an
\* open initiator
NextEvents ==
    LET id == Len(Tracked) + 1
        first == IF Tracked = << >> THEN "" ELSE Tracked[1].h.EventType
    IN {ActivityTaskScheduled(id, a) : a \in {x \in ActivityIds :
                                            first \in {"", "ActivityTaskScheduled"}}}
       \cup {ActivityTerminal(id, type, k) :
                type \in {t \in ActivityTerminals : first = "ActivityTaskScheduled"},
                k \in 1..Len(Tracked)}
       \cup {Initiated(id, type, w) : type \in {t \in Initiators : first \in {"", t}},
                                      w \in WorkflowIds}
       \cup (IF first \in Initiators
             THEN {Event(id, type, k, "", "", EmptyText) :
                      type \in TerminalsOf(first), k \in Open(first)}
             ELSE {})

CorrTrack ==
    /\ Len(Tracked) < MaxTracks
    /\ \E h \in NextEvents :
          /\ cor' = Track(cor, h)
          /\ corLog' = Append(corLog, [op |-> "Track", h |-> h])
    /\ UNCHANGED <<history, previousStartedEventId, ticks, last, emitted, closed,
                   interceptor, report, pollVars, responses, unitVars>>

\* a decider forgets the event it is deciding on, which is tracked next
CorrForget ==
    /\ Len(Tracked) < MaxTracks
    /\ cor.toForget = Nil
    /\ \E h \in NextEvents :
          /\ h.EventType \in FailureTypes
          /\ cor' = ForgetCorrelation(cor, h)
          /\ corLog' = Append(corLog, [op |-> "Forget", h |-> h])
    /\ UNCHANGED <<history, previousStartedEventId, ticks, last, emitted, closed,
                   interceptor, report, pollVars, responses, unitVars>>

CorrInit ==
    /\ cor = EmptyCorrelator
    /\ corLog = << >>
    /\ history = << >>
    /\ previousStartedEventId = 0
    /\ ticks = 0
    /\ last = NoTick
    /\ emitted = << >>
    /\ closed = FALSE
    /\ interceptor = "none"
    /\ report = NoReport
    /\ PollIdle
    /\ responses = << >>
    /\ UnitIdle

CorrNext == CorrTrack \/ CorrForget

CorrSpec == CorrInit /\ [][CorrNext]_vars

(***************************************************************************)
(* Track of an event that ends something the correlator does not hold: a   *)
(* history event that names a scheduled, started or initiated event id     *)
(* which is not a key of the map of its kind.                              *)
(***************************************************************************)
MaxOrphans == 1     \* Track calls of such events per behaviour

TerminalTypes == RefTypes \ {"ActivityTaskStarted"}

\* the map RemoveCorrelation deletes the entry of the event from
OutstandingOf(a, type) ==
    CASE type \in ActivityTerminals -> a.Activities
      [] type \in TerminalsOf("SignalExternalWorkflowExecutionInitiated") -> a.Signals
      [] type \in {"TimerFired", "TimerCanceled"} -> a.Timers
      [] type \in TerminalsOf("RequestCancelExternalWorkflowExecutionInitiated") ->
           a.Cancellations
      [] type \in TerminalsOf("StartChildWorkflowExecutionInitiated") -> a.Children

OrphanEvents ==
    LET id == Len(Tracked) + 1 IN
    {h \in {Event(id, type, k, "", "", EmptyText) : type \in TerminalTypes, k \in 0..(id - 1)} :
        ~MapHas(OutstandingOf(cor, h.EventType), key(h.Ref))}

\* a Track call that panics has run checkInit and nothing more
TrackOrphan ==
    /\ Len(Tracked) < MaxTracks
    /\ Cardinality({i \in DOMAIN corLog : "orphan" \in DOMAIN corLog[i]}) < MaxOrphans
    /\ \E h \in OrphanEvents :
          LET panics == RemoveCorrelationPanics(checkInit(cor), h) IN
          /\ cor' = IF panics THEN checkInit(cor) ELSE Track(cor, h)
          /\ corLog' = Append(corLog, [op |-> "Track", h |-> h, orphan |-> TRUE,
                                       failed |-> panics, before |-> cor])
    /\ UNCHANGED <<history, previousStartedEventId, ticks, last, emitted, closed,
                   interceptor, report, pollVars, responses, unitVars>>

OrphanNext == CorrTrack \/ CorrForget \/ TrackOrphan

OrphanSpec == CorrInit /\ [][OrphanNext]_vars

(***************************************************************************)
(* A zero-value EventCorrelator, &EventCorrelator{}, on which any method   *)
(* is the first call.  An event names the event before it.  A call that    *)
(* panics has run checkInit and nothing more.                              *)
(***************************************************************************)
MaxZeroOps == 1     \* calls on the zero-value correlator

ZeroEventTypes ==
    RefTypes \cup Initiators \cup {"ActivityTaskScheduled", "TimerStarted"}

\* the events a call can be about
ZeroEvents ==
    LET id == Len(corLog) + 2 IN
    {Event(id, type, id - 1, "w", "name", EmptyText) : type \in ZeroEventTypes}
    \cup {Event(id, "WorkflowExecutionSignaled", id - 1, "", name, input) :
             name \in {"ActivityStarted", "sig"},
             input \in {EmptyText, Serialize([ActivityId |-> "a"])}}

\* the infos an AttemptsFor lookup can be about, by the method
ZeroInfos ==
    [Activity |-> {[ActivityId |-> "a"], [ActivityId |-> ""]},
     Signal |-> {[SignalName |-> "name", WorkflowId |-> "w"]},
     Cancellation |-> {[WorkflowId |-> "w"], [WorkflowId |-> ""]},
     Child |-> {[WorkflowId |-> "w"], [WorkflowId |-> ""]}]

AttemptsFor(a, method, info) ==
    CASE method = "Activity" -> AttemptsForActivity(a, info)
      [] method = "Signal" -> AttemptsForSignal(a, info)
      [] method = "Cancellation" -> AttemptsForCancellation(a, info)
      [] method = "Child" -> AttemptsForChild(a, info)

Called(op, h, failed, found) == [op |-> op, h |-> h, failed |-> failed, result |-> found]

ZeroUnchanged ==
    UNCHANGED <<history, previousStartedEventId, ticks, last, emitted, closed,
                interceptor, report, pollVars, responses, unitVars>>

ZeroTrack ==
    /\ Len(corLog) < MaxZeroOps
    /\ \E h \in ZeroEvents :
          LET panics == RemoveCorrelationPanics(checkInit(cor), h) IN
          /\ cor' = IF panics THEN checkInit(cor) ELSE Track(cor, h)
          /\ corLog' = Append(corLog, Called("Track", h, panics, Nil))
    /\ ZeroUnchanged

ZeroRemoveCorrelation ==
    /\ Len(corLog) < MaxZeroOps
    /\ \E h \in ZeroEvents :
          LET panics == RemoveCorrelationPanics(checkInit(cor), h) IN
          /\ cor' = IF panics THEN checkInit(cor) ELSE RemoveCorrelation(cor, h)
          /\ corLog' = Append(corLog, Called("RemoveCorrelation", h, panics, Nil))
    /\ ZeroUnchanged

ZeroCorrelate ==
    /\ Len(corLog) < MaxZeroOps
    /\ \E h \in ZeroEvents :
          /\ cor' = Correlate(cor, h)
          /\ corLog' = Append(corLog, Called("Correlate", h, FALSE, Nil))
    /\ ZeroUnchanged

\* ActivityInfo, SignalInfo, TimerInfo, CancellationInfo, ChildInfo
ZeroInfo ==
    /\ Len(corLog) < MaxZeroOps
    /\ \E h \in ZeroEvents :
       \E field \in {"Activities", "Signals", "Timers", "Cancellations", "Children"} :
          LET panics == getIdPanics(cor, h) IN
          /\ cor' = checkInit(cor)
          /\ corLog' = Append(corLog,
                 Called(field, h, panics,
                        IF panics THEN Nil ELSE InfoLookup(checkInit(cor), field, h)))
    /\ ZeroUnchanged

\* AttemptsForActivity, AttemptsForSignal, AttemptsForCancellation,
\* AttemptsForChild
ZeroAttempts ==
    /\ Len(corLog) < MaxZeroOps
    /\ \E method \in DOMAIN ZeroInfos : \E info \in ZeroInfos[method] :
          /\ cor' = checkInit(cor)
          /\ corLog' = Append(corLog,
                 Called("AttemptsFor", [method |-> method, info |-> info], FALSE,
                        [attempts |-> AttemptsFor(checkInit(cor), method, info)]))
    /\ ZeroUnchanged

ZeroInit ==
    /\ cor = ZeroCorrelator
    /\ corLog = << >>
    /\ history = << >>
    /\ previousStartedEventId = 0
    /\ ticks = 0
    /\ last = NoTick
    /\ emitted = << >>
    /\ closed = FALSE
    /\ interceptor = "none"
    /\ report = NoReport
    /\ PollIdle
    /\ responses = << >>
    /\ UnitIdle

ZeroNext == ZeroTrack \/ ZeroRemoveCorrelation \/ ZeroCorrelate \/ ZeroInfo \/ ZeroAttempts

ZeroSpec == ZeroInit /\ [][ZeroNext]_vars

(***************************************************************************)
(* The pollers, the ShutdownManager and FSM.Stop on their own.  PollLive   *)
(* adds that a goroutine that can take a step takes one, every Poll and    *)
(* onTask call returning; when StopPollers and Stop are called is left to  *)
(* the application.                                                        *)
(***************************************************************************)
PollInit == CorrInit

PollerStep(p) == Register(p) \/ Select(p) \/ Poll(p) \/ OnTask(p) \/ Ack(p)

StopPollersStep == SendStop \/ AwaitAcks \/ ReceiveAck \/ StopPollersReturn

PollNext ==
    \/ \E p \in Pollers : Start(p) \/ PollerStep(p)
    \/ StopPollers
    \/ StopPollersStep
    \/ Stop

PollSpec == PollInit /\ [][PollNext]_vars

PollLive ==
    /\ PollSpec
    /\ \A p \in Pollers : WF_vars(PollerStep(p))
    /\ WF_vars(StopPollersStep)

(***************************************************************************)
(* Two FSMs of the same name and an ActivityWorker started with one        *)
(* ShutdownManager.                                                        *)
(***************************************************************************)
NameNext ==
    \/ \E p \in Goroutines : Start(p) \/ PollerStep(p)
    \/ StopPollers
    \/ StopPollersStep

NameSpec == PollInit /\ [][NameNext]_vars

(***************************************************************************)
(* ActivityWorker.fail on its own.                                         *)
(***************************************************************************)
BackoffSpec == CorrInit /\ [][FailActivityTask]_vars

(***************************************************************************)
(* The built-in interceptors on their own.                                 *)
(***************************************************************************)
InterceptNext == InterceptDefault \/ InterceptStartCancel \/ InterceptContinuations

InterceptSpec == CorrInit /\ [][InterceptNext]_vars

(***************************************************************************)
(* The dispatchers on their own.  Handlers return, and a goroutine that    *)
(* can take a step eventually takes one.                                   *)
(***************************************************************************)
HandlerStep ==
    \/ \E w \in 1..MaxGoroutines : Receive(w) \/ WorkerReturn(w)
    \/ \E t \in 1..MaxDispatched : SpawnedReturn(t)
    \/ InlineReturn

DispatchNext == MakeDispatcher \/ DispatchTask \/ HandlerStep

DispatchSpec == CorrInit /\ [][DispatchNext]_vars

PageSpec == CorrInit /\ [][PageNext]_vars

DispatchLive ==
    /\ DispatchSpec
    /\ \A w \in 1..MaxGoroutines : WF_vars(Receive(w) \/ WorkerReturn(w))
    /\ \A t \in 1..MaxDispatched : WF_vars(SpawnedReturn(t))
    /\ WF_vars(InlineReturn)

(***************************************************************************)
(* The activity worker on its own.                                         *)
(***************************************************************************)
WorkerInit == CorrInit

WorkerSpec == WorkerInit /\ [][DispatchActivityTask]_vars

(***************************************************************************)
(* handleDecisionTask of an FSM with a ReplicationHandler, on workflows    *)
(* that are not in error state.                                            *)
(***************************************************************************)
HandleReplicatedTask ==
    /\ ~closed
    /\ ticks < MaxTicks
    /\ Triggered
    /\ EntryErrorState = Nil
    /\ \E behs \in Scripts(Unprocessed), respondErr \in BOOLEAN, rep \in {"ok", "error"} :
          handleDecisionTask(Tick(DecisionTask, interceptor, behs, "nil", << >>),
                             respondErr, rep)

TaskNext == External \/ HandleReplicatedTask

TaskSpec == Init /\ [][TaskNext]_vars

(***************************************************************************)
(* Ticks in which a serialization of recordStateMarkers fails: that of the *)
(* user data of the outcome (f.Serializer), of the SerializedState, of the *)
(* correlator or of the error state (f.SystemSerializer).  A serializer    *)
(* that fails returns the empty string and an error.                       *)
(***************************************************************************)
Serializations == {"data", "state", "correlator", "error"}

\* recordStateMarkers when the serializations in failing return an error:
\* [decisions, state, err].  The error of the first Serialize is assigned
\* over by the second.
recordStateMarkersOrFail(ctx, outcome, eventCorrelator, errorState, failing) ==
    LET serializedData == IF "data" \in failing THEN EmptyText ELSE Serialize(outcome.Data)
        state == SerializedState(ctx.stateVersion + 1, outcome.State, serializedData,
                                 ctx.WorkflowId)
        d == recordStringMarker(StateMarker, Serialize(state))
        c == recordStringMarker(CorrelatorMarker, SerializeCorrelator(eventCorrelator))
        e == IF errorState # Nil
             THEN <<recordStringMarker(ErrorMarker, Serialize(errorState))>>
             ELSE << >>
    IN IF \/ "state" \in failing
          \/ "correlator" \in failing
          \/ errorState # Nil /\ "error" \in failing
       THEN [decisions |-> << >>, state |-> state, err |-> TRUE]
       ELSE [decisions |-> <<d, c>> \o e \o outcome.Decisions, state |-> state,
             err |-> FALSE]

\* what Tick makes of the result m of recordStateMarkers at the place it
\* called it: after the loop and after a panic it reports the error and
\* returns nil, nil, nil and the error; after a failed recovery it returns
\* what recordStateMarkers returned
Recorded(t, m) ==
    IF ~m.err
    THEN [t EXCEPT !.decisions = m.decisions, !.state = m.state] @@
         [failed |-> FALSE, reported |-> "none"]
    ELSE IF t.path = "recoveryFailed"
    THEN [t EXCEPT !.status = "error", !.decisions = m.decisions, !.state = m.state] @@
         [failed |-> TRUE, reported |-> "none"]
    ELSE [t EXCEPT !.status = "error", !.decisions = << >>, !.state = Nil] @@
         [failed |-> TRUE, reported |-> "ErrorSerializingStateData"]

\* the tick t with the serializations in failing failing in the
\* recordStateMarkers call of the tick itself
TickOrFail(decisionTask, t, failing) ==
    IF t.status # "ok" THEN t @@ [failed |-> FALSE, reported |-> "none"]
    ELSE Recorded(t,
            recordStateMarkersOrFail(
                [State |-> t.outcome.State, stateVersion |-> t.old.StateVersion,
                 WorkflowId |-> decisionTask.WorkflowId],
                t.outcome, t.correlator, t.errorState, failing))

\* at most one serialization fails in a tick
Failures == {{}} \cup {{s} : s \in Serializations}

\* a decision task in which serializations may fail
HandleUnserializableTask ==
    /\ ~closed
    /\ ticks < MaxTicks
    /\ Triggered
    /\ \E failing \in Failures, eh \in {"nil", "handled"} :
          /\ EntryErrorState = Nil => eh = "nil"
          /\ \E behs \in Scripts(IF EntryErrorState = Nil THEN Unprocessed ELSE 0) :
                LET filtered == filteredDecisionTask(DecisionTask, EntryErrorState)
                    replayed ==
                        IF EntryErrorState = Nil THEN 0
                        ELSE Len(findLastEvents(filtered.PreviousStartedEventId,
                                                filtered.Events))
                    t == Tick(DecisionTask, interceptor, behs, eh,
                              [i \in 1..replayed |-> "pass"])
                IN Respond(TickOrFail(DecisionTask, t, failing) @@ [failing |-> failing])

SerializeNext == External \/ HandleUnserializableTask

SerializeSpec == Init /\ [][SerializeNext]_vars

(***************************************************************************)
(* Properties of FSM.Tick, stated on what the last tick returned (last)    *)
(* and on the versions of the state markers emitted so far (emitted).      *)
(***************************************************************************)
IsMarker(d, name) == d.DecisionType = "RecordMarker" /\ d.Name = name

HasMarker(decisions, name) == \E i \in 1..Len(decisions) : IsMarker(decisions[i], name)

IsSchedule(d) == d.DecisionType = "ScheduleActivityTask"

\* what a decider or an error handler put into a decision list
IsDecided(d) == d.DecisionType \in {"ScheduleActivityTask", "ContinueAsNewWorkflowExecution"}

\* the decisions the events of the tick contributed, in the order of the calls
RECURSIVE Contributions(_)
Contributions(calls) ==
    IF calls = << >> THEN << >>
    ELSE (IF Head(calls).Outcome = Nil THEN << >> ELSE Head(calls).Outcome.Decisions)
         \o Contributions(Tail(calls))

\* the position in calls of the call for the event
CallOf(eventId) == CHOOSE j \in 1..Len(last.calls) : last.calls[j].EventId = eventId

\* the handler calls of the last tick that returned no outcome
NotRescued == {i \in 1..Len(last.handled) : ~last.handled[i].rescued}

\* C1: in every decision list a tick returns without error the first
\* decision records the FSM.State marker, the second the FSM.Correlator
\* marker, and every decision of the deciders and interceptors follows them.
C1_MarkersFirst ==
    last.status = "ok" =>
        LET d == last.decisions
            own == last.outcome.Decisions
            markers == Len(d) - Len(own)
        IN /\ markers \in {2, 3}
           /\ IsMarker(d[1], StateMarker)
           /\ IsMarker(d[2], CorrelatorMarker)
           /\ SubSeq(d, markers + 1, Len(d)) = own
           /\ \A i \in 1..Len(d) : IsDecided(d[i]) \/ isComplete(d[i]) => i > 2

\* a tick with the test interceptor returned a decision of a decider and a
\* decision of the interceptor
C1_Witness ==
    /\ last.status = "ok"
    /\ interceptor = "test"
    /\ \E i \in 1..Len(last.decisions) : IsSchedule(last.decisions[i])
    /\ \E i \in 1..Len(last.decisions) : isComplete(last.decisions[i])

\* C2: the state a successful tick returns, and the payload of the FSM.State
\* marker it emits, have the stateVersion of the state reconstructed from the
\* history plus one.
C2_VersionPlusOne ==
    last.status = "ok" =>
        /\ last.state.StateVersion = last.old.StateVersion + 1
        /\ Deserialize(last.decisions[1].Details).StateVersion = last.old.StateVersion + 1

\* the first tick of a run started with stateVersion 23 emitted 24
C2_Witness ==
    /\ last.status = "ok"
    /\ ticks = 1
    /\ last.old.StateVersion = 23
    /\ Deserialize(last.decisions[1].Details).StateVersion = 24

\* C3: over the successful ticks of one workflow, continue-as-new included,
\* the stateVersions of the emitted FSM.State markers are strictly
\* increasing: no two markers carry the same version.
C3_VersionsIncrease ==
    \A i \in 1..Len(emitted) : \A j \in 1..Len(emitted) :
        i < j => emitted[i] < emitted[j]

FoldedOutcome ==
    IF last.path = "decided" /\ last.hooks # << >>
    THEN last.hooks[Len(last.hooks)].in
    ELSE last.outcome

\* C5: when a decider panics, the handler of the current state, or the
\* default handler when the state has none, is called with stateBeforeEvent
\* equal to the data as it was before the decider ran and stateAfterError
\* equal to the data the decider mutated; an outcome it returns is merged as
\* the outcome of the event and the fold continues with the next event.
C5_HandlerSeesBothStates ==
    last.status # "none" =>
        \A i \in 1..Len(last.handled) :
            LET hc == last.handled[i]
                j == CallOf(hc.EventId)
                c == last.calls[j]
            IN /\ hc.handler = (IF c.State \in ErrorHandlers THEN c.State ELSE "default")
               /\ hc.stateBeforeEvent = c.Data
               /\ hc.stateAfterError = Visit(c.Data, c.State)
               /\ hc.rescued =>
                     /\ c.Outcome = Outcome("", Visit(c.Data, hc.handler), << >>)
                     /\ (\E k \in 1..Len(last.lastEvents) :
                            last.lastEvents[k].EventId > hc.EventId) => j < Len(last.calls)
                     /\ j < Len(last.calls) =>
                            /\ last.calls[j + 1].Data = c.Outcome.Data
                            /\ last.calls[j + 1].State = c.State
                     /\ j = Len(last.calls) => FoldedOutcome.Data = c.Outcome.Data

\* the handler of state working rescued an event and the next event was
\* decided on the data it returned
C5_Witness ==
    /\ last.status = "ok"
    /\ \E i \in 1..Len(last.handled) :
          /\ last.handled[i].rescued
          /\ last.handled[i].handler = "working"
          /\ CallOf(last.handled[i].EventId) < Len(last.calls)

\* C6: when the history holds an FSM.Error marker at tick entry and the
\* shadow tick completes successfully, the tick goes on with the recovered
\* outcome and ends by recording markers without an FSM.Error marker.
C6_ShadowTickRecovers ==
    (last.status # "none" /\ last.entryErrorState # Nil /\ last.shadow = "ok") =>
        /\ last.status = "ok"
        /\ ~HasMarker(last.decisions, ErrorMarker)

\* C7: when the history holds an FSM.Error marker at tick entry and recovery
\* fails, because the handler returns no outcome or because the shadow tick
\* fails, the tick invokes no decider and returns the FSM.State,
\* FSM.Correlator and FSM.Error markers and the decisions already in the
\* outcome, the error marker keeping its earliestUnprocessedEventId and
\* having latestUnprocessedEventId = the startedEventId of the task.
C7_FailedRecoveryRerecords ==
    (/\ last.status # "none"
     /\ last.entryErrorState # Nil
     /\ last.shadow \in {"none", "error"}) =>
        /\ last.status = "ok"
        /\ last.calls = << >>
        /\ Len(last.decisions) = 3 + Len(last.outcome.Decisions)
        /\ IsMarker(last.decisions[1], StateMarker)
        /\ IsMarker(last.decisions[2], CorrelatorMarker)
        /\ IsMarker(last.decisions[3], ErrorMarker)
        /\ Deserialize(last.decisions[3].Details).EarliestUnprocessedEventId =
               last.entryErrorState.EarliestUnprocessedEventId
        /\ Deserialize(last.decisions[3].Details).LatestUnprocessedEventId =
               last.StartedEventId

\* C8: within one tick the deciders are invoked on the unprocessed events in
\* strictly increasing eventId order, each seeing the state and data of the
\* outcome of the previous event (an empty state keeps the current state),
\* and the decisions of an earlier event precede those of a later event in
\* the returned list.
C8_ChronologicalFold ==
    (last.status # "none" /\ last.calls # << >>) =>
        LET calls == last.calls
            oldestFirst == Reverse(last.lastEvents)
        IN /\ Len(calls) <= Len(oldestFirst)
           /\ \A i \in 1..Len(calls) : calls[i].EventId = oldestFirst[i].EventId
           /\ \A i \in 1..(Len(calls) - 1) :
                 /\ calls[i].EventId < calls[i + 1].EventId
                 /\ calls[i].Outcome # Nil
                 /\ calls[i + 1].Data = calls[i].Outcome.Data
                 /\ calls[i + 1].State = (IF calls[i].Outcome.State = "" THEN calls[i].State
                                          ELSE calls[i].Outcome.State)
           /\ last.status = "ok" =>
                 SelectSeq(last.decisions, IsDecided) = Contributions(calls)
           /\ last.path = "decided" => Len(calls) = Len(oldestFirst)

\* a tick decided three events, one of them without naming a state, and two
\* of them contributed a decision
C8_Witness ==
    /\ last.status = "ok"
    /\ Len(last.calls) >= 3
    /\ Len(Contributions(last.calls)) >= 2
    /\ \E i \in 1..(Len(last.calls) - 1) :
          last.calls[i].Outcome # Nil /\ last.calls[i].Outcome.State = ""

\* C9: when the outcome of a decider moves the FSM into a different state
\* that defines EntryDecisions, the decisions of the EntryDecisions of the
\* entered state are part of the decision list the tick returns.
C9_EntryDecisionsInvoked ==
    last.status = "ok" =>
        \A i \in 1..Len(last.calls) :
            LET c == last.calls[i] IN
            (/\ c.Outcome # Nil
             /\ c.Outcome.State \notin {"", c.State}
             /\ EntryDecisions(c.Outcome.State) # << >>) =>
                \E k \in 1..Len(last.decisions) :
                    last.decisions[k] = EntryDecisions(c.Outcome.State)[1]

(***************************************************************************)
(* Properties of the EventCorrelator, stated on the correlator (cor) and   *)
(* the calls made on it (corLog).                                          *)
(***************************************************************************)
IsTrack(c, types) == c.op = "Track" /\ c.h.EventType \in types

\* the two calls are Track of a schedule and Track of its terminal event
RoundTrip(terminal) ==
    /\ Len(corLog) = 2
    /\ IsTrack(corLog[1], {"ActivityTaskScheduled"})
    /\ IsTrack(corLog[2], {terminal})
    /\ corLog[2].h.Ref = corLog[1].h.EventId

\* all calls are Track, of a schedule of one activity id and of its failure
\* or timeout in turn
FailureCycles ==
    /\ corLog # << >>
    /\ Len(corLog) % 2 = 0
    /\ \A i \in 1..Len(corLog) :
          IF i % 2 = 1
          THEN /\ IsTrack(corLog[i], {"ActivityTaskScheduled"})
               /\ corLog[i].h.Id = corLog[1].h.Id
          ELSE /\ IsTrack(corLog[i], {"ActivityTaskFailed", "ActivityTaskTimedOut"})
               /\ corLog[i].h.Ref = corLog[i - 1].h.EventId

FirstActivity == [ActivityId |-> corLog[1].h.Id]

\* C10: on an empty correlator Track(scheduled k for a); Track(completed k)
\* leaves Activities empty and no attempts for a; Track(scheduled);
\* Track(failed) leaves Activities empty and one attempt for a; n cycles of
\* schedule and failure or timeout of a leave n attempts for a.
C10_ActivityRoundTrip ==
    /\ RoundTrip("ActivityTaskCompleted") =>
          /\ cor.Activities = EmptyMap
          /\ ~MapHas(cor.ActivityAttempts, corLog[1].h.Id)
          /\ AttemptsForActivity(cor, FirstActivity) = 0
    /\ RoundTrip("ActivityTaskFailed") =>
          /\ cor.Activities = EmptyMap
          /\ AttemptsForActivity(cor, FirstActivity) = 1
    /\ FailureCycles =>
          /\ cor.Activities = EmptyMap
          /\ AttemptsForActivity(cor, FirstActivity) = Len(corLog) \div 2

\* two cycles of one activity, one ended by a failure and one by a timeout
C10_Witness ==
    /\ FailureCycles
    /\ Len(corLog) = 4
    /\ corLog[2].h.EventType # corLog[4].h.EventType
    /\ AttemptsForActivity(cor, FirstActivity) = 2

\* the tracked event i ends an activity that was open when it was tracked
EndsOpenActivity(i) ==
    /\ Tracked[i].h.EventType \in ActivityTerminals
    /\ Tracked[i].h.Ref < i
    /\ Tracked[Tracked[i].h.Ref].h.EventType = "ActivityTaskScheduled"
    /\ \A j \in (Tracked[i].h.Ref + 1)..(i - 1) :
          ~(Tracked[j].h.EventType \in ActivityTerminals
            /\ Tracked[j].h.Ref = Tracked[i].h.Ref)

\* the activity id of the schedule the tracked terminal event i names
EndedActivityId(i) == Tracked[Tracked[i].h.Ref].h.Id

\* C11: after any sequence of Track calls, Activities holds key k exactly
\* when an ActivityTaskScheduled event with eventId k has been tracked and no
\* ActivityTaskCompleted, ActivityTaskFailed, ActivityTaskTimedOut or
\* ActivityTaskCanceled event with scheduledEventId k has been tracked after
\* it.
C11_ActivitiesIffOutstanding ==
    /\ DOMAIN cor.Activities \subseteq {key(k) : k \in 1..Len(Tracked)}
    /\ \A k \in 1..Len(Tracked) :
          MapHas(cor.Activities, key(k)) <=>
              /\ Tracked[k].h.EventType = "ActivityTaskScheduled"
              /\ \A j \in (k + 1)..Len(Tracked) :
                    ~(Tracked[j].h.EventType \in ActivityTerminals /\ Tracked[j].h.Ref = k)

\* of two scheduled activities one was canceled, and a second terminal event
\* named an event that is no schedule
C11_Witness ==
    /\ Len(Tracked) = 4
    /\ Tracked[1].h.EventType = "ActivityTaskScheduled"
    /\ Tracked[2].h.EventType = "ActivityTaskScheduled"
    /\ Tracked[3].h.EventType = "ActivityTaskCanceled" /\ Tracked[3].h.Ref = 1
    /\ Tracked[4].h.EventType = "ActivityTaskCompleted" /\ Tracked[4].h.Ref = 3
    /\ DOMAIN cor.Activities = {key(2)}

\* C12: in every correlator state reachable by Track calls the attempts of
\* an activity id are above 0 only if the most recent terminal event tracked
\* for an open activity with that id was ActivityTaskFailed or
\* ActivityTaskTimedOut, and tracking ActivityTaskCompleted or
\* ActivityTaskCanceled for an open activity removes the counter of its id.
C12_AttemptsOnlyAfterFailure ==
    /\ \A a \in ActivityIds :
          MapGet(cor.ActivityAttempts, a, 0) > 0 =>
              LET ended == {i \in 1..Len(Tracked) :
                               EndsOpenActivity(i) /\ EndedActivityId(i) = a}
              IN /\ ended # {}
                 /\ Tracked[CHOOSE i \in ended : \A j \in ended : j <= i].h.EventType
                        \in {"ActivityTaskFailed", "ActivityTaskTimedOut"}
    /\ (/\ corLog # << >>
        /\ corLog[Len(corLog)].op = "Track"
        /\ corLog[Len(corLog)].h.EventType \in {"ActivityTaskCompleted", "ActivityTaskCanceled"}
        /\ EndsOpenActivity(Len(Tracked))) =>
            ~MapHas(cor.ActivityAttempts, EndedActivityId(Len(Tracked)))

\* an activity failed, was scheduled again under the same id and was then
\* canceled, which removed the counter
C12_Witness ==
    /\ Len(corLog) = 4
    /\ Len(Tracked) = 4
    /\ Tracked[2].h.EventType = "ActivityTaskFailed" /\ EndsOpenActivity(2)
    /\ Tracked[4].h.EventType = "ActivityTaskCanceled" /\ EndsOpenActivity(4)
    /\ EndedActivityId(2) = EndedActivityId(4)
    /\ cor.ActivityAttempts = EmptyMap

\* the attempts map that counts the failures of the type
AttemptsField(type) ==
    CASE type \in {"ActivityTaskFailed", "ActivityTaskTimedOut"} -> "ActivityAttempts"
      [] type = "SignalExternalWorkflowExecutionFailed" -> "SignalAttempts"
      [] type = "RequestCancelExternalWorkflowExecutionFailed" -> "CancelationAttempts"
      [] type = "StartChildWorkflowExecutionFailed" -> "ChildrenAttempts"

\* the id the calls so far correlate with the failure event h: the id of the
\* open initiator h names, or "" when h names none
CorrelatedId(h) ==
    IF /\ h.Ref \in 1..Len(Tracked)
       /\ h.EventType \in TerminalsOf(Tracked[h.Ref].h.EventType)
       /\ \A j \in (h.Ref + 1)..Len(Tracked) :
             ~(/\ Tracked[j].h.EventType \in TerminalsOf(Tracked[h.Ref].h.EventType)
               /\ Tracked[j].h.Ref = h.Ref)
    THEN IF Tracked[h.Ref].h.EventType = "SignalExternalWorkflowExecutionInitiated"
         THEN Tracked[h.Ref].h.Name \o "->" \o Tracked[h.Ref].h.Id
         ELSE Tracked[h.Ref].h.Id
    ELSE ""

\* the tracked failure event f named an initiator that was open when f was
\* tracked
WasCorrelated(f) ==
    /\ f.Ref \in 1..Len(Tracked)
    /\ f.EventId \in 1..Len(Tracked)
    /\ f.EventType \in TerminalsOf(Tracked[f.Ref].h.EventType)
    /\ \A j \in (f.Ref + 1)..(f.EventId - 1) :
          ~(/\ Tracked[j].h.EventType \in TerminalsOf(Tracked[f.Ref].h.EventType)
            /\ Tracked[j].h.Ref = f.Ref)

\* two initiators of one type with one id
SameId(i, j) ==
    i.EventType = j.EventType /\ i.Id = j.Id /\ i.Name = j.Name

\* the step is Track(h) for a failure event h of an open initiator
TracksFailure(h) ==
    /\ corLog' = Append(corLog, [op |-> "Track", h |-> h])
    /\ h.EventType \in FailureTypes
    /\ CorrelatedId(h) # ""

\* C13: Track(e) of a failed or timed-out event e (activity, signal,
\* cancellation or child) for which ForgetCorrelation(e) was called deletes
\* the attempt counter of the id correlated with e instead of incrementing it
\* and clears the forget pointer; Track of a failure event other than e
\* increments the counter of its id by one and leaves the pointer; so a
\* failure of the id after a forgotten one counts from 1.
C13_ForgottenFailureNotCounted ==
    [][\A h \in NextEvents :
          TracksFailure(h) =>
              LET field == AttemptsField(h.EventType)
                  id == CorrelatedId(h)
              IN IF cor.toForget = h
                 THEN /\ ~MapHas(cor'[field], id)
                      /\ cor'.toForget = Nil
                 ELSE /\ MapGet(cor'[field], id, 0) = MapGet(cor[field], id, 0) + 1
                      /\ cor'.toForget = cor.toForget
                      /\ (/\ Len(corLog) >= 3
                          /\ corLog[Len(corLog) - 1].op = "Track"
                          /\ corLog[Len(corLog) - 2] =
                                 [op |-> "Forget", h |-> corLog[Len(corLog) - 1].h]
                          /\ WasCorrelated(corLog[Len(corLog) - 1].h)
                          /\ corLog[Len(corLog) - 1].h.EventType \in FailureTypes
                          /\ SameId(Tracked[corLog[Len(corLog) - 1].h.Ref].h,
                                    Tracked[h.Ref].h))
                          => MapGet(cor'[field], id, 0) = 1]_vars

\* the start of a child failed once and was counted; the failure of the
\* second start of the same child was forgotten and then tracked, which
\* left no counter
C13_Witness ==
    /\ Len(corLog) = 5
    /\ corLog[1].h.EventType = "StartChildWorkflowExecutionInitiated"
    /\ corLog[2] = [op |-> "Track",
                    h |-> Event(2, "StartChildWorkflowExecutionFailed", 1, "", "", EmptyText)]
    /\ corLog[3].h.EventType = "StartChildWorkflowExecutionInitiated"
    /\ corLog[3].h.Id = corLog[1].h.Id
    /\ corLog[4] = [op |-> "Forget",
                    h |-> Event(4, "StartChildWorkflowExecutionFailed", 3, "", "", EmptyText)]
    /\ corLog[5] = [op |-> "Track", h |-> corLog[4].h]
    /\ cor.ChildrenAttempts = EmptyMap
    /\ cor.toForget = Nil

(***************************************************************************)
(* Properties of the zero-value EventCorrelator, stated on the calls made  *)
(* on it (corLog) and on the correlator they leave (cor).                  *)
(***************************************************************************)
\* C14: on a zero-value EventCorrelator any method can be the first call,
\* for any history event or non-nil info: the call completes without a
\* panic, all nine maps are instantiated after it, and an AttemptsFor lookup
\* of an unknown or empty key returns 0.
C14_ZeroValueValid ==
    \A i \in 1..Len(corLog) :
        /\ ~corLog[i].failed
        /\ cor.nilMaps = {}
        /\ corLog[i].op = "AttemptsFor" => corLog[i].result.attempts = 0

(***************************************************************************)
(* ShutdownManager and the pollers (PollSpec, PollLive)                    *)
(***************************************************************************)
Elements(s) == {s[i] : i \in DOMAIN s}

\* C15: StopPollers sends a stop to every registered poller before it
\* receives any ack, returns only after it has received one ack from every
\* registered poller, and leaves the registry empty; a StopPollers call that
\* finds the registry empty has no send and no receive to wait for.
C15_StopPollersProtocol ==
    /\ [](mgr.acked # << >> =>
            /\ Elements(mgr.sent) = mgr.snapshot
            /\ Len(mgr.sent) = Cardinality(mgr.snapshot))
    /\ [][mgr.pc # "idle" /\ mgr'.pc = "idle" =>
            /\ Elements(mgr.acked) = mgr.snapshot
            /\ Len(mgr.acked) = Cardinality(mgr.snapshot)
            /\ mgr'.registeredPollers = {}]_vars
    /\ [][mgr.pc = "idle" /\ mgr'.pc # "idle" /\ mgr.registeredPollers = {} =>
            mgr'.toSend = << >> /\ pollers' = pollers]_vars
    /\ [](mgr.pc # "idle" /\ mgr.snapshot = {} =>
            mgr.toSend = << >> /\ mgr.toAck = << >>)

\* two pollers were stopped by the first StopPollers call and a second call
\* has returned
C15_Witness ==
    /\ mgr.calls = 2
    /\ mgr.pc = "idle"
    /\ Len(mgr.registered) = 2
    /\ mgr.snapshot = {}
    /\ \A p \in Pollers : pollers[p].pc = "returned"

\* the position of the poller p in the order of the Register calls
RegistrationIndex(p) ==
    CHOOSE i \in DOMAIN mgr.registered : mgr.registered[i] = p

InRegistrationOrder(s) ==
    \A i \in DOMAIN s : \A j \in DOMAIN s :
        i < j => RegistrationIndex(s[i]) < RegistrationIndex(s[j])

\* C16: StopPollers sends the stops, and then receives the acks, in the
\* order in which the pollers were registered.
C16_RegistrationOrder ==
    InRegistrationOrder(mgr.sent) /\ InRegistrationOrder(mgr.acked)

\* C17: PollUntilShutdownBy registers its (stop, ack) pair and then loops.
\* With a stop pending at the top of the loop it sends one ack and returns;
\* otherwise it polls once, calls onTask exactly once for each task and goes
\* back to the top of the loop after a poll error or an empty response.  It
\* never calls onTask after it has sent its ack, and, every Poll and onTask
\* call returning, a stop sent by StopPollers is eventually acked.
C17_PollUntilShutdown ==
    /\ [](\A p \in Pollers :
            /\ pollers[p].pc \notin {"unstarted", "register"} =>
                  p \in Elements(mgr.registered)
            /\ pollers[p].stop <= 1 /\ pollers[p].stopAck <= 1
            /\ pollers[p].acks = (IF pollers[p].pc = "returned" THEN 1 ELSE 0)
            /\ pollers[p].calls =
                  (IF pollers[p].pc = "onTask" THEN pollers[p].tasks - 1
                                               ELSE pollers[p].tasks))
    /\ [][\A p \in Pollers :
            /\ pollers[p].pc = "loop" /\ pollers'[p].pc # "loop" =>
                  IF pollers[p].stop > 0
                  THEN pollers'[p].pc = "ack" /\ pollers'[p].stop = 0
                  ELSE pollers'[p].pc = "poll"
            /\ pollers[p].pc = "poll" /\ pollers'[p].pc # "poll" =>
                  \/ pollers'[p].pc = "onTask" /\ pollers'[p].tasks = pollers[p].tasks + 1
                  \/ pollers'[p].pc = "loop" /\ pollers'[p].tasks = pollers[p].tasks
            /\ pollers[p].pc = "ack" /\ pollers'[p].pc # "ack" =>
                  pollers'[p].pc = "returned"
            /\ pollers[p].pc = "returned" => pollers'[p].pc = "returned"
            /\ pollers[p].acks > 0 => pollers'[p].calls = pollers[p].calls]_vars
    /\ \A p \in Pollers : (pollers[p].stop = 1) ~> (pollers[p].acks = 1)

\* a poller that met a poll error or an empty response, handled a task, and
\* acked the stop that StopPollers sent it
C17_Witness ==
    \E p \in Pollers :
        /\ pollers[p].missed
        /\ pollers[p].calls = 1
        /\ pollers[p].acks = 1
        /\ p \in Elements(mgr.acked)

\* C18: after FSM.Start, a call of FSM.Stop makes the poller goroutine of
\* the FSM leave its polling loop, and every call of Stop returns.
C18_StopStopsPoller ==
    /\ [](fsmStop.blocked = 0)
    /\ (fsmStop.returned > 0) ~> (pollers[FSMPoller].pc = "returned")

(***************************************************************************)
(* handleDecisionTask with a ReplicationHandler (TaskSpec)                 *)
(***************************************************************************)
\* C19: when the ReplicationHandler returns an error, that error is what the
\* TaskErrorHandler receives, RespondDecisionTaskCompleted has succeeded
\* before, and the decisions that were reported stand.
C19_ReplicationErrorReported ==
    report.replication = "error" =>
        /\ report.responded
        /\ report.decisions = last.decisions
        /\ report.errors = <<"replication error">>

(***************************************************************************)
(* ActivityWorker (WorkerSpec)                                             *)
(***************************************************************************)
Failed(r) ==
    /\ Len(r.calls) = 1
    /\ r.calls[1].kind = "RespondActivityTaskFailed"

Canceled(r, details) ==
    r.calls = <<[kind |-> "RespondActivityTaskCanceled", payload |-> details]>>

Completed(r, payload) ==
    r.calls = <<[kind |-> "RespondActivityTaskCompleted", payload |-> payload]>>

\* C20: with AllowPanics false every activity task results in exactly one
\* Respond call.  No handler for the activity type name, an input that does
\* not deserialize, a result that does not serialize, a handler error that is
\* not an ActivityTaskCanceledError, and a handler panic give
\* RespondActivityTaskFailed; an ActivityTaskCanceledError gives
\* RespondActivityTaskCanceled with its details; anything else gives
\* RespondActivityTaskCompleted, a nil result sent as no result and a string
\* result sent as it is.  The handler function is not invoked when no handler
\* matches or the input does not deserialize.
C20_OneRespondPerTask ==
    \A i \in 1..Len(responses) :
        LET r == responses[i]
            handler == r.worker.handlers["test"]
            f == handler.HandlerFunc
            noHandler == r.task.Name # "test"
            badInput == /\ r.task.Input = String("garbage")
                        /\ handler.Input = "struct"
        IN ~r.worker.AllowPanics =>
              /\ Len(r.calls) = 1
              /\ ~r.panic
              /\ r.invoked = (~noHandler /\ ~badInput)
              /\ IF noHandler \/ badInput THEN Failed(r)
                 ELSE CASE f = "nil" -> Completed(r, Nil)
                        [] f = "string" -> Completed(r, String("done"))
                        [] f = "struct" ->
                              Completed(r, [text |-> Serialize([struct |-> "output"])])
                        [] f = "canceled" -> Canceled(r, Nil)
                        [] f = "canceled with details" -> Canceled(r, String("why"))
                        [] OTHER -> Failed(r)

\* a worker that recovers from panics was given a task whose handler
\* panicked, and answered it
C20_Witness ==
    \E i \in 1..Len(responses) :
        /\ ~responses[i].worker.AllowPanics
        /\ responses[i].task.Name = "test"
        /\ responses[i].worker.handlers["test"].HandlerFunc = "panic"
        /\ responses[i].invoked
        /\ Failed(responses[i])

(***************************************************************************)
(* ActivityWorker.fail with BackoffOnFailure (BackoffSpec)                 *)
(***************************************************************************)
\* the ActivityAttempts of the most recent correlator marker of a fetched
\* history, Nil when the history holds none that can be read
RecentAttempts(fetched) ==
    LET markers == SelectSeq(fetched.Events, isCorrelatorMarker) IN
    IF fetched.err \/ markers = << >> THEN Nil
    ELSE IF ~CanDeserialize(markers[1].Details) THEN Nil
    ELSE Deserialize(markers[1].Details).ActivityAttempts

\* twice min(2^(attempts-1), max), the claimed sleep counted in half seconds
ClaimedHalfSeconds(attempts, max) ==
    IF attempts > 30 THEN 2 * max
    ELSE IF 2 ^ attempts >= 2 * max THEN 2 * max ELSE 2 ^ attempts

\* C21: with BackoffOnFailure set, fail sleeps min(2^(attempts-1),
\* MaxBackoffSeconds) seconds, attempts being ActivityAttempts[activityId] of
\* the most recent correlator marker, before it calls
\* RespondActivityTaskFailed; the sleep never exceeds MaxBackoffSeconds; and
\* RespondActivityTaskFailed is called also when the history cannot be
\* fetched or holds no correlator marker.
C21_BackoffBeforeFail ==
    \A i \in 1..Len(backoffs) :
        LET b == backoffs[i]
            recent == RecentAttempts(b.fetched)
        IN b.worker.BackoffOnFailure =>
              /\ b.did[Len(b.did)].op = "RespondActivityTaskFailed"
              /\ \A k \in 1..(Len(b.did) - 1) :
                    /\ b.did[k].op = "Sleep"
                    /\ b.did[k].seconds <= b.worker.MaxBackoffSeconds
              /\ recent # Nil =>
                    /\ Len(b.did) = 2
                    /\ 2 * b.did[1].seconds =
                          ClaimedHalfSeconds(MapGet(recent, b.task.ActivityID, 0),
                                             b.worker.MaxBackoffSeconds)

(***************************************************************************)
(* The built-in interceptors (InterceptSpec)                               *)
(***************************************************************************)
ClosePriority(type) ==
    CASE type = "FailWorkflowExecution" -> 3
      [] type = "CompleteWorkflowExecution" -> 2
      [] type = "CancelWorkflowExecution" -> 1

\* C22: after the default interceptor chain the outcome holds at most one
\* workflow-close decision, of the highest-priority close kind that was
\* present (Fail > Complete > Cancel), as its last decision, and all the
\* other decisions in their original relative order.
C22_DefaultInterceptorCloses ==
    \A i \in 1..Len(outcomes) :
        LET in == outcomes[i].in
            out == outcomes[i].out
            closes == SelectSeq(out, isCloseDecision)
        IN outcomes[i].interceptor = "default" =>
              /\ Len(closes) <= 1
              /\ Len(closes) = 1 <=> \E k \in 1..Len(in) : isCloseDecision(in[k])
              /\ Len(closes) = 1 =>
                    /\ out[Len(out)] = closes[1]
                    /\ \A k \in 1..Len(in) :
                          isCloseDecision(in[k]) =>
                              ClosePriority(in[k].DecisionType)
                                  <= ClosePriority(closes[1].DecisionType)
              /\ SelectSeq(out, LAMBDA d : ~isCloseDecision(d))
                    = SelectSeq(in, LAMBDA d : ~isCloseDecision(d))

\* [Complete, Cancel, Fail, Complete] has become [Fail]
C22_Witness ==
    \E i \in 1..Len(outcomes) :
        /\ outcomes[i].interceptor = "default"
        /\ Len(outcomes[i].in) = 4
        /\ outcomes[i].in[1].DecisionType = "CompleteWorkflowExecution"
        /\ outcomes[i].in[2].DecisionType = "CancelWorkflowExecution"
        /\ outcomes[i].in[3].DecisionType = "FailWorkflowExecution"
        /\ outcomes[i].in[4].DecisionType = "CompleteWorkflowExecution"
        /\ Len(outcomes[i].out) = 1
        /\ outcomes[i].out[1].DecisionType = "FailWorkflowExecution"

\* the indices k of a list at which a Start is immediately followed by its
\* Cancel
ElidedPairs(in) ==
    {k \in 1..(Len(in) - 1) : StartThenCancel(in[k], in[k + 1])}

StartCancelTypes ==
    {pair.start : pair \in StartCancelPairs} \cup {pair.cancel : pair \in StartCancelPairs}

\* C23: start/cancel elision removes, for each kind (child workflow,
\* activity, timer), a Start decision immediately followed by a Cancel
\* decision of the same kind and id together with that Cancel, and nothing
\* else: earlier Starts of the same id stay, a Cancel before the Start, a
\* Cancel with another id and Starts without Cancel leave the list
\* unchanged, and decisions of other types are never removed.
C23_StartCancelElision ==
    \A i \in 1..Len(outcomes) :
        LET in == outcomes[i].in
            out == outcomes[i].out
            pairs == ElidedPairs(in)
        IN outcomes[i].interceptor = "startCancel" =>
              /\ out = KeepFrom(in, {k \in 1..Len(in) : k \notin pairs /\ (k - 1) \notin pairs}, 1)
              /\ Len(out) = Len(in) - 2 * Cardinality(pairs)
              /\ pairs = {} => out = in
              /\ SelectSeq(out, LAMBDA d : d.DecisionType \notin StartCancelTypes)
                    = SelectSeq(in, LAMBDA d : d.DecisionType \notin StartCancelTypes)

\* of two Starts of activity "a" followed by its Cancel and a marker, the
\* first Start and the marker are left
C23_Witness ==
    \E i \in 1..Len(outcomes) :
        /\ outcomes[i].interceptor = "startCancel"
        /\ outcomes[i].in = <<Decision("ScheduleActivityTask", "a", "", EmptyText),
                              Decision("ScheduleActivityTask", "a", "", EmptyText),
                              Decision("RequestCancelActivityTask", "a", "", EmptyText),
                              recordStringMarker("marker", EmptyText)>>
        /\ outcomes[i].out = <<Decision("ScheduleActivityTask", "a", "", EmptyText),
                               recordStringMarker("marker", EmptyText)>>

\* the decisions an interceptor appended to those it was given
Added(o) == SubSeq(o.out, Len(o.in) + 1, Len(o.out))

HasEvent(o, type) ==
    \E k \in 1..Len(o.task.Events) : o.task.Events[k].EventType = type

\* C24: ManagedContinuations.AfterDecision appends a StartTimer for
\* FSM.ContinueWorkflow on a task with a WorkflowExecutionStarted event; on a
\* task with the FSM.ContinueWorkflow timer fired, the FSM.ContinueWorkflow
\* signal, or an event id above historyLimit, it appends
\* ContinueAsNewWorkflowExecution when no activity is outstanding and a
\* StartTimer and no ContinueAsNew otherwise; it never appends a ContinueAsNew
\* while an activity is outstanding.
C24_ManagedContinuations ==
    \A i \in 1..Len(outcomes) :
        LET o == outcomes[i]
            added == Added(o)
            timers == Len(SelectSeq(added, LAMBDA d : d = StartTimer(ContinueTimer)))
            continues == Len(SelectSeq(added, LAMBDA d :
                                d.DecisionType = "ContinueAsNewWorkflowExecution"))
            started == HasEvent(o, "WorkflowExecutionStarted")
            due == \E k \in 1..Len(o.task.Events) :
                      \/ o.task.Events[k] = Event(2, "TimerFired", 0, ContinueTimer, "", EmptyText)
                      \/ o.task.Events[k] =
                            Event(3, "WorkflowExecutionSignaled", 0, "", ContinueSignal, EmptyText)
                      \/ o.task.Events[k].EventId > HistoryLimit
            outstanding == DOMAIN o.ctx.eventCorrelator.Activities # {}
        IN o.interceptor = "continuations" =>
              /\ SubSeq(o.out, 1, Len(o.in)) = o.in
              /\ Len(added) = timers + continues
              /\ continues = (IF due /\ ~outstanding THEN 1 ELSE 0)
              /\ timers = (IF started THEN 1 ELSE 0) + (IF due /\ outstanding THEN 1 ELSE 0)
              /\ outstanding => continues = 0

\* the continue timer fired while an activity was outstanding, and the
\* interceptor started the timer again instead of continuing
C24_Witness ==
    \E i \in 1..Len(outcomes) :
        /\ outcomes[i].interceptor = "continuations"
        /\ outcomes[i].task.Events = <<Event(2, "TimerFired", 0, ContinueTimer, "", EmptyText)>>
        /\ DOMAIN outcomes[i].ctx.eventCorrelator.Activities = {"1"}
        /\ Added(outcomes[i]) = <<StartTimer(ContinueTimer)>>

(***************************************************************************)
(* The dispatchers (DispatchSpec, DispatchLive)                            *)
(***************************************************************************)
\* the tasks whose handler is running
Handling ==
    ({dispatcher.workers[w] : w \in DOMAIN dispatcher.workers} \ {0})
        \cup dispatcher.spawned
        \cup (IF dispatcher.poll.pc = "handling" THEN {dispatcher.poll.task} ELSE {})

\* C25: BoundedGoroutineDispatcher starts its NumGoroutines workers (one
\* when NumGoroutines is 0) on the first DispatchTask and not before, never
\* runs more than NumGoroutines handlers at a time, and every task given to
\* DispatchTask is eventually handled exactly once, as with the dispatcher
\* that handles in the calling goroutine and the one that starts a goroutine
\* per task.
C25_BoundedDispatcher ==
    /\ [](dispatcher # Nil =>
            /\ dispatcher.kind = "BoundedGoroutineDispatcher" =>
                  /\ dispatcher.started <=> dispatcher.dispatched > 0
                  /\ ~dispatcher.started => dispatcher.workers = << >>
                  /\ dispatcher.started =>
                        /\ dispatcher.NumGoroutines >= 1
                        /\ Len(dispatcher.workers) = dispatcher.NumGoroutines
                  /\ Cardinality(Handling) <= dispatcher.NumGoroutines
            /\ \A t \in 1..MaxDispatched :
                  /\ dispatcher.handled[t] <= 1
                  /\ dispatcher.handled[t] = 1 =>
                        t <= dispatcher.dispatched /\ t \notin Handling
                  /\ t \in Handling => t <= dispatcher.dispatched)
    /\ [][dispatcher # Nil /\ dispatcher.kind = "BoundedGoroutineDispatcher"
            /\ ~dispatcher.started /\ dispatcher'.started =>
               Len(dispatcher'.workers) =
                  (IF dispatcher.NumGoroutines = 0 THEN 1 ELSE dispatcher.NumGoroutines)]_vars
    /\ \A t \in 1..MaxDispatched :
          (dispatcher # Nil /\ dispatcher.dispatched >= t)
              ~> (dispatcher # Nil /\ dispatcher.handled[t] = 1)

\* a pool of two workers has handled one task and is handling two more
C25_Witness ==
    /\ dispatcher # Nil
    /\ dispatcher.kind = "BoundedGoroutineDispatcher"
    /\ dispatcher.NumGoroutines = 2
    /\ dispatcher.handled[1] = 1
    /\ Cardinality(Handling) = 2

\* C26: DispatchTask of the bounded pool returns without waiting for a
\* worker to become free: the polling goroutine is never held in
\* DispatchTask while every worker is running a handler.
C26_DispatchNeverWaits ==
    (dispatcher # Nil /\ dispatcher.poll.pc = "sending") =>
        \E w \in DOMAIN dispatcher.workers : dispatcher.workers[w] = 0

(***************************************************************************)
(* The hooks of the DecisionInterceptor in a tick (last.hooks): which      *)
(* hooks were called, after how many decider calls, with which outcome,    *)
(* and which outcome they left.                                            *)
(***************************************************************************)
HookNames == [i \in 1..Len(last.hooks) |-> last.hooks[i].hook]

\* the three hooks were called once each and in order, BeforeDecision on
\* the reconstructed state before any decider, AfterDecision after the last
\* unprocessed event; the fold started from what BeforeDecision left and
\* the markers and decisions returned are those of what AfterDecision left
HooksOnceInOrder ==
    /\ HookNames = <<"BeforeTask", "BeforeDecision", "AfterDecision">>
    /\ LET before == last.hooks[2]
           after == last.hooks[3]
       IN /\ before.decided = 0
          /\ before.in = Outcome(last.old.StateName, Deserialize(last.old.StateData), << >>)
          /\ last.calls # << >> =>
                /\ last.calls[1].State = before.out.State
                /\ last.calls[1].Data = before.out.Data
          /\ last.calls = << >> => after.in = before.out
          /\ after.decided = Len(last.lastEvents)
          /\ Len(last.calls) = Len(last.lastEvents)
          /\ after.in.Decisions = before.out.Decisions \o Contributions(last.calls)
          /\ Len(last.decisions) = 2 + Len(after.out.Decisions)
          /\ IsMarker(last.decisions[1], StateMarker)
          /\ IsMarker(last.decisions[2], CorrelatorMarker)
          /\ SubSeq(last.decisions, 3, Len(last.decisions)) = after.out.Decisions
          /\ last.state.StateName = after.out.State
          /\ last.state.StateData = Serialize(after.out.Data)
          /\ last.decisions[1].Details = Serialize(last.state)

DecisionTaskTypes ==
    {"DecisionTaskScheduled", "DecisionTaskStarted", "DecisionTaskCompleted"}

\* the events of the history after prevStarted that are neither events of
\* decision tasks nor state or correlator markers
Undecided(prevStarted, events) ==
    {e \in Elements(events) :
        /\ e.EventId > prevStarted
        /\ e.EventType \notin DecisionTaskTypes
        /\ ~(e.EventType = "MarkerRecorded" /\ e.Name \in {StateMarker, CorrelatorMarker})}

\* the first pages of a history
FirstPages(events) == {SubSeq(events, 1, k) : k \in 0..Len(events)}

\* the task of the shadow tick for the decision task at hand
ShadowTask == filteredDecisionTask(DecisionTask, EntryErrorState)

DecidedEvents ==
    {e \in Elements(last.lastEvents) : \E i \in 1..Len(last.calls) : last.calls[i].EventId = e.EventId}

\* C29: an FSM.Error marker is never passed to a decider by a tick: it is
\* not among the unprocessed events the tick selects from the history.
C29_ErrorMarkerElided ==
    last.status # "none" =>
        /\ \A e \in DecidedEvents : ~isErrorMarker(e)
        /\ \A e \in Elements(last.lastEvents) : ~isErrorMarker(e)

(***************************************************************************)
(* The state the loop of the last tick was in when it ended: the state the *)
(* fold started in, or the state the outcomes decided so far led to.       *)
(***************************************************************************)
StartState ==
    IF last.hooks # << >> /\ Len(last.hooks) >= 2
    THEN last.hooks[2].out.State
    ELSE last.old.StateName

StateAfter(call) == IF call.Outcome.State = "" THEN call.State ELSE call.Outcome.State

\* the last tick reached its loop, and an event was left to decide when the
\* current state was state
AboutToDecideIn(state) ==
    /\ last.status # "none"
    /\ last.old # Nil
    /\ last.entryErrorState = Nil
    /\ Len(last.calls) < Len(last.lastEvents)
    /\ IF last.calls = << >> THEN state = StartState
       ELSE /\ last.calls[Len(last.calls)].Outcome # Nil
            /\ state = StateAfter(last.calls[Len(last.calls)])

C30_ReconstructedMissing ==
    /\ AboutToDecideIn("ghost")
    /\ last.calls = << >>
    /\ last.old.StateName = "ghost"
    /\ last.path = "missing"

(***************************************************************************)
(* The state a tick starts from, for the decision task at hand and for     *)
(* every first page of its history.                                        *)
(***************************************************************************)
\* the decision task with the newest events of its history only
PageTask(events) == [DecisionTask EXCEPT !.Events = events]

\* a tick on such a task in which every decider passes and the error
\* handler rescues nothing
PassingTick(events) ==
    Tick(PageTask(events), interceptor,
         [i \in 1..Len(findLastEvents(previousStartedEventId, events)) |-> "pass"],
         "nil", << >>)

\* the state markers and start events of a history
Stateful(events) ==
    {e \in Elements(events) : isStateMarker(e) \/ e.EventType = "WorkflowExecutionStarted"}

\* the newest of them
NewestStateful(events) ==
    CHOOSE e \in Stateful(events) : \A o \in Stateful(events) : o.EventId <= e.EventId

SerializationFailed ==
    /\ last.status # "none"
    /\ last.path \in {"decided", "panic", "recoveryFailed"}
    /\ \/ last.failing \cap {"data", "state", "correlator"} # {}
       \/ "error" \in last.failing /\ last.errorState # Nil

\* the state markers among the decisions that were sent to the service
SentStateMarkers ==
    {Deserialize(d.Details) : d \in {m \in Elements(report.decisions) : IsMarker(m, StateMarker)}}

\* C32: when a serialization in recordStateMarkers fails, of the data of
\* the outcome, of the SerializedState, of the correlator or of the error
\* state, the tick returns an error and no decisions and reports the
\* failure through ErrorSerializingStateData; no FSM.State marker with
\* empty stateData is emitted.
C32_SerializationFailureFailsTick ==
    /\ SerializationFailed =>
          /\ last.status = "error"
          /\ last.decisions = << >>
          /\ last.reported = "ErrorSerializingStateData"
          /\ ~report.responded
    /\ \A state \in SentStateMarkers : state.StateData # EmptyText

(***************************************************************************)
(* taskReady on the pages of the history of the decision task at hand, and *)
(* the ticks on the pages it accepts.                                      *)
(***************************************************************************)
\* the first pages of the task at hand that taskReady accepts
ReadyPages == {events \in FirstPages(DecisionTask.Events) : taskReady(PageTask(events))}

\* the tick on a task in which every decider does b, the error handler
\* answers eh and every decider of the shadow tick passes
UniformTick(task, b, eh) ==
    LET shadow == IF findSerializedErrorState(task.Events) = Nil THEN task
                  ELSE filteredDecisionTask(task, findSerializedErrorState(task.Events))
    IN Tick(task, interceptor,
            [i \in 1..Len(findLastEvents(task.PreviousStartedEventId, task.Events)) |-> b],
            eh,
            [i \in 1..Len(findLastEvents(shadow.PreviousStartedEventId, shadow.Events)) |-> b])

\* what a tick returns
TickReturn(t) == [status |-> t.status, decisions |-> t.decisions, state |-> t.state]

\* taskReady accepts the pages with a start event, or with a state marker, a
\* correlator marker and an event the previous decision task has seen
ReadyIff ==
    \A events \in FirstPages(DecisionTask.Events) :
        taskReady(PageTask(events)) <=>
            \/ \E e \in Elements(events) : e.EventType = "WorkflowExecutionStarted"
            \/ /\ \E e \in Elements(events) : isStateMarker(e)
               /\ \E e \in Elements(events) : isCorrelatorMarker(e)
               /\ \E e \in Elements(events) : e.EventId <= previousStartedEventId

\* the tick on a page taskReady accepts returns what the tick on the whole
\* history returns
SameTick ==
    \A events \in ReadyPages :
        \A b \in Behaviours, eh \in {"nil", "handled"} :
            TickReturn(UniformTick(PageTask(events), b, eh)) =
                TickReturn(UniformTick(DecisionTask, b, eh))

\* C33: taskReady returns true if and only if the events accumulated hold a
\* WorkflowExecutionStarted event, or an FSM.State marker, an FSM.Correlator
\* marker and an event with an id of at most previousStartedEventId; when
\* it returns true a tick on the events accumulated returns the decisions
\* and the state that a tick on the complete history returns.
C33_TaskReady ==
    Triggered => (ReadyIff /\ SameTick)

\* the task Poll has accumulated after n pages
AccumulatedTask(n) ==
    [Events |-> Accumulated(paging.pages, n), PreviousStartedEventId |-> paging.prev,
     TaskToken |-> paging.token]

\* C34: Poll appends the events of the pages, in the order received, to the
\* task of the first page, asks taskReady about the accumulated task after
\* each page and asks for no page after the one on which taskReady returned
\* true; it returns no task and no error for a response without task
\* token, and no task when the service call returns an error.
C34_PollAccumulatesPages ==
    paging # Nil =>
        /\ paging.served > 0 => paging.resp = AccumulatedTask(paging.served)
        /\ Len(paging.ready) = paging.served
        /\ \A n \in 1..paging.served :
              /\ paging.ready[n] = taskReady(AccumulatedTask(n))
              /\ n < paging.served => ~paging.ready[n]
        /\ paging.pc = "returned" =>
              /\ paging.returned.err => paging.returned.task = Nil
              /\ ~paging.token => paging.returned.task = Nil
              /\ (~paging.returned.err /\ paging.token) =>
                    /\ paging.returned.task = AccumulatedTask(paging.served)
                    /\ paging.served >= 1
                    /\ paging.ready[paging.served] \/ paging.served = Len(paging.pages)

\* Poll returned a task of two pages out of three: taskReady accepted the
\* second page on a state marker, a correlator marker and an event the
\* previous task had seen
C34_Witness ==
    /\ paging # Nil
    /\ paging.pc = "returned"
    /\ Len(paging.pages) = 3
    /\ paging.served = 2
    /\ paging.returned.task # Nil
    /\ paging.ready = <<FALSE, TRUE>>
    /\ \A e \in Elements(paging.returned.task.Events) : e.EventType # "WorkflowExecutionStarted"

\* C35: when a decider panics and no handler rescues it, the FSM.State
\* marker recorded with the FSM.Error marker carries the state name and the
\* data as they were before that decider ran: what the decider did to the
\* data before it panicked is not persisted.
C35_PanicKeepsStateBefore ==
    (last.status = "ok" /\ last.path = "panic") =>
        LET panicked == last.calls[Len(last.calls)]
            marked == Deserialize(last.decisions[1].Details)
        IN /\ IsMarker(last.decisions[1], StateMarker)
           /\ IsMarker(last.decisions[3], ErrorMarker)
           /\ marked = last.state
           /\ marked.StateName = panicked.State
           /\ Deserialize(marked.StateData) = panicked.Data

\* the correlator after every event of events, oldest first, was tracked once
RECURSIVE TrackAll(_, _)
TrackAll(a, events) ==
    IF events = << >> THEN a ELSE TrackAll(Track(a, Head(events)), Tail(events))

\* the ticks of the decision task at hand that fold every unprocessed event
\* and return without error track each of these events once: the correlator
\* in the FSM.Correlator marker is the one found in the history after Track
\* of every event folded, oldest first
TracksEveryEvent(scripts) ==
    (Triggered /\ EntryErrorState = Nil) =>
        \A behs \in scripts :
            LET t == Tick(DecisionTask, interceptor, behs, "nil", << >>)
                found == findSerializedEventCorrelator(DecisionTask.Events).correlator
                folded == Reverse(findLastEvents(previousStartedEventId, DecisionTask.Events))
            IN (t.status = "ok" /\ t.path = "decided") =>
                  /\ t.correlator = TrackAll(found, folded)
                  /\ IsMarker(t.decisions[2], CorrelatorMarker)
                  /\ t.decisions[2].Details = SerializeCorrelator(TrackAll(found, folded))

\* C36: in a tick that returns without error every event passed to a decider
\* is applied to the correlator with Track exactly once, also an event whose
\* decider panicked and was rescued by a DecisionErrorHandler, so that the
\* FSM.Correlator marker reflects every event folded.
C36_EveryFoldedEventTracked == TracksEveryEvent(Scripts(Unprocessed))

\* the state the loop of the last tick ended in
FoldedState ==
    IF last.calls = << >> THEN StartState
    ELSE IF last.calls[Len(last.calls)].Outcome = Nil THEN last.calls[Len(last.calls)].State
    ELSE StateAfter(last.calls[Len(last.calls)])

\* the state named by the FSM.State marker of the last tick
MarkedState == Deserialize(last.decisions[1].Details).StateName

\* C37 as stated: the FSM.State marker of a tick that returns no error
\* names a state registered in the FSM, also when the outcome of the last
\* event folded or an interceptor names the next state.
C37_MarkerNamesRegisteredState ==
    (last.status = "ok" /\ last.entryErrorState = Nil) =>
        /\ IsMarker(last.decisions[1], StateMarker)
        /\ MarkedState \in States

\* C37, amended: the marker names the state the loop ended in, or the state
\* AfterDecision put in its place.  That state is looked up in the FSM only
\* when another event is decided in it, so every state a decider ran in is
\* registered, and a marker names an unregistered state only if the outcome
\* of the last event folded named it.
C37_MarkerNamesFoldedState ==
    (last.status = "ok" /\ last.entryErrorState = Nil) =>
        /\ IsMarker(last.decisions[1], StateMarker)
        /\ MarkedState = last.state.StateName
        /\ last.path = "panic" => MarkedState = FoldedState
        /\ last.path = "decided" =>
              MarkedState = AfterDecision(interceptor, Nil,
                                          [FoldedOutcome EXCEPT !.State = FoldedState]).State
        /\ \A i \in 1..Len(last.calls) : last.calls[i].State \in States
        /\ MarkedState \notin States =>
              /\ last.path = "decided"
              /\ last.calls # << >>
              /\ last.calls[Len(last.calls)].Outcome.State = MarkedState

\* the decider of the last of two events named a state the FSM does not
\* have, and the tick recorded it
C37_Witness ==
    /\ last.status = "ok"
    /\ last.entryErrorState = Nil
    /\ Len(last.calls) >= 2
    /\ MarkedState = "ghost"
    /\ report.responded

\* C38: for any interleaving of Register calls, two pollers registering
\* under the same name included, when StopPollers returns every poller whose
\* Register completed before StopPollers started has received its stop and
\* has sent its ack.  Register takes the mutex StopPollers holds, so the
\* Register calls completed when StopPollers returns are those completed
\* when it started.
C38_StopPollersStopsRegistered ==
    [][StopPollersReturn =>
          \A i \in 1..Len(mgr.registered) :
              /\ pollers[mgr.registered[i]].acks = 1
              /\ pollers[mgr.registered[i]].pc = "returned"]_vars

\* the same for the pollers that registered under a name of their own
C38_StopPollersStopsDistinctNames ==
    [][StopPollersReturn =>
          \A i \in 1..Len(mgr.registered) :
              (\A j \in 1..Len(mgr.registered) :
                   PollerName(mgr.registered[j]) = PollerName(mgr.registered[i]) => j <= i)
              => /\ pollers[mgr.registered[i]].acks = 1
                 /\ pollers[mgr.registered[i]].pc = "returned"]_vars

(***************************************************************************)
(* Track of an event that ends nothing (OrphanSpec)                        *)
(***************************************************************************)
\* the outstanding maps and the attempt counters of a correlator
Correlations(a) ==
    [f \in {"Activities", "ActivityAttempts", "Signals", "SignalAttempts", "Timers",
            "Cancellations", "CancelationAttempts", "Children", "ChildrenAttempts"}
       |-> a[f]]

\* the last call was a Track of an event whose initiating event the
\* correlator did not hold
OrphanTracked ==
    /\ corLog # << >>
    /\ "orphan" \in DOMAIN corLog[Len(corLog)]

\* C39: Track of a terminal event whose scheduled, started or initiated
\* event is not in the correlator completes without failure and leaves the
\* outstanding maps and the attempt counters as they were.
C39_OrphanTrackChangesNothing ==
    OrphanTracked =>
        /\ ~corLog[Len(corLog)].failed
        /\ Correlations(cor) = Correlations(corLog[Len(corLog)].before)

\* the same for the events whose case in RemoveCorrelation does not read
\* the info of the event: the maps are as they were
C39_OrphanTrackLeavesMaps ==
    OrphanTracked => Correlations(cor) = Correlations(corLog[Len(corLog)].before)

(***************************************************************************)
(* The calls handleDecisionTask makes (TaskSpec)                           *)
(***************************************************************************)
CallsOf(op) == SelectSeq(report.calls, LAMBDA c : c.op = op)

\* the positions in report.calls of the calls of op
PositionsOf(op) == {i \in DOMAIN report.calls : report.calls[i].op = op}

\* C40: for a decision task, RespondDecisionTaskCompleted is called at most
\* once, never when Tick returned an error (the TaskErrorHandler is called
\* instead), and with the decisions Tick returned and the token of the task;
\* the ReplicationHandler is called at most once, only after
\* RespondDecisionTaskCompleted succeeded, and with the serialized state
\* Tick returned, which is the state of the FSM.State marker of the response
\* and one version above the state the tick started from.
C40_RespondAndReplicateOnce ==
    ticks > 0 =>
        LET answers == CallsOf("RespondDecisionTaskCompleted")
            replications == CallsOf("ReplicationHandler")
        IN /\ Len(answers) <= 1
           /\ Len(replications) <= 1
           /\ last.status # "ok" =>
                 /\ answers = << >>
                 /\ replications = << >>
                 /\ Len(CallsOf("TaskErrorHandler")) = 1
           /\ last.status = "ok" => Len(answers) = 1
           /\ answers # << >> =>
                 /\ answers[1].Decisions = last.decisions
                 /\ answers[1].TaskToken = TaskToken(last.StartedEventId)
           /\ replications # << >> =>
                 /\ report.responded
                 /\ \A i \in PositionsOf("ReplicationHandler") :
                       /\ \E j \in PositionsOf("RespondDecisionTaskCompleted") : j < i
                       /\ \A j \in PositionsOf("TaskErrorHandler") : j > i
                 /\ replications[1].complete = answers[1]
                 /\ replications[1].state = last.state
                 /\ IsMarker(last.decisions[1], StateMarker)
                 /\ Deserialize(last.decisions[1].Details) = replications[1].state
                 /\ last.old # Nil =>
                       replications[1].state.StateVersion = last.old.StateVersion + 1

\* a tick that decided on two events and more was answered and replicated
C40_Witness ==
    /\ ticks > 0
    /\ last.status = "ok"
    /\ Len(last.calls) >= 2
    /\ Len(last.decisions) > 2
    /\ report.calls[1].op = "RespondDecisionTaskCompleted"
    /\ Len(report.calls) = 2
    /\ report.calls[2].op = "ReplicationHandler"
    /\ report.calls[2].state.StateVersion = 2

\* the response failed and nothing was replicated
C40_RespondFailed ==
    /\ ticks > 0
    /\ last.status = "ok"
    /\ ~report.responded
    /\ CallsOf("ReplicationHandler") = << >>
    /\ Len(CallsOf("RespondDecisionTaskCompleted")) = 1

====
